---- MODULE Spec2Model ----
(***************************************************************************)
(* A model of the spec literal parser of lib/spack/spack/spec_parser.py:   *)
(* the token cursor (TokenContext), the node parser (SpecNodeParser), the  *)
(* edge attribute parser (EdgeAttributeParser), the dependency loop of     *)
(* SpecParser.next_spec and the toolchain expansion, which re-enters the   *)
(* parser through parse_one_or_raise; and of the generator tokenize() run   *)
(* over texts of characters.                                               *)
(*                                                                         *)
(* The state is the call stack of SpecParser activations.  The text of the *)
(* outermost parser is read lazily, one token at a time, exactly as the    *)
(* generator parseable_tokens() hands it out: a token is chosen when       *)
(* advance() asks the stream for it.                                       *)
(***************************************************************************)
EXTENDS Integers, Sequences, FiniteSets, TLC

VARIABLES
    frames,     \* call stack of SpecParser activations, the last one is running
    scenario,   \* which vocabulary the outermost text is written in
    tok,        \* a run of the generator tokenize(text) over a text of characters
    fmt,        \* a call of _spec_str_format(spec_str), token by token
    fix,        \* a call of _spec_str_fix_handler and the file it works on
    cursor,     \* a TokenContext and the last call made on it
    quo         \* a value put through quote_if_needed and back

vars == <<frames, scenario, tok, fmt, fix, cursor, quo>>

\* the calls that run beside the parser
calls == <<tok, fmt, fix, cursor, quo>>

\* no such call is running
NoCall == [status |-> "none"]

\* Longest outermost text, in tokens.
MaxLen == 5

\* Deepest nesting of parse_one_or_raise calls the model follows.
MaxDepth == 3

----------------------------------------------------------------------------
(* Python string operations used by the parser.                            *)

RECURSIVE Find(_, _, _)
\* offset (0-based) of the first occurrence of sub in s at or after i, -1 if none
Find(s, sub, i) ==
    IF i + Len(sub) > Len(s) THEN -1
    ELSE IF SubSeq(s, i + 1, i + Len(sub)) = sub THEN i
    ELSE Find(s, sub, i + 1)

\* s.index(sub)
StrIndex(s, sub) == Find(s, sub, 0)

RECURSIVE Replace(_, _, _)
\* s.replace(old, new), for a non-empty old
Replace(s, old, new) ==
    IF Len(s) < Len(old) THEN s
    ELSE IF SubSeq(s, 1, Len(old)) = old
    THEN new \o Replace(SubSeq(s, Len(old) + 1, Len(s)), old, new)
    ELSE SubSeq(s, 1, 1) \o Replace(SubSeq(s, 2, Len(s)), old, new)

\* sub in s
Contains(s, sub) == Find(s, sub, 0) >= 0

\* s[n:]
From(s, n) == SubSeq(s, n + 1, Len(s))

RECURSIVE Split(_, _)
\* s.split(sep)
Split(s, sep) ==
    LET i == Find(s, sep, 0)
    IN  IF i < 0 THEN <<s>>
        ELSE <<SubSeq(s, 1, i)>> \o Split(From(s, i + Len(sep)), sep)

\* s.split(sep, maxsplit=1)
SplitOnce(s, sep) ==
    LET i == Find(s, sep, 0)
    IN  IF i < 0 THEN <<s>> ELSE <<SubSeq(s, 1, i), From(s, i + Len(sep))>>

RECURSIVE Join(_, _)
\* sep.join(parts)
Join(parts, sep) ==
    IF parts = <<>> THEN ""
    ELSE IF Len(parts) = 1 THEN parts[1]
    ELSE parts[1] \o sep \o Join(Tail(parts), sep)

RECURSIVE LStrip(_, _)
LStrip(s, chars) ==
    IF Len(s) > 0 /\ SubSeq(s, 1, 1) \in chars THEN LStrip(From(s, 1), chars) ELSE s

RECURSIVE RStrip(_, _)
RStrip(s, chars) ==
    IF Len(s) > 0 /\ SubSeq(s, Len(s), Len(s)) \in chars
    THEN RStrip(SubSeq(s, 1, Len(s) - 1), chars) ELSE s

\* s.strip(chars)
Strip(s, chars) == RStrip(LStrip(s, chars), chars)

\* s.endswith(suffix)
EndsWith(s, suffix) ==
    Len(s) >= Len(suffix) /\ SubSeq(s, Len(s) - Len(suffix) + 1, Len(s)) = suffix

\* the last element of a non-empty sequence
Last(seq) == seq[Len(seq)]

\* all but the last element
Front(seq) == SubSeq(seq, 1, Len(seq) - 1)

----------------------------------------------------------------------------
(* Tokens.                                                                 *)

\* subvalues of a token whose pattern matched no named group
NoSub == [virtuals |-> "", substitute |-> ""]

\* Python's None where a token is expected
NoToken == [kind |-> "NONE", value |-> "", start |-> 0, end |-> 0, subvalues |-> NoSub]

\* Token(kind, value, start, end, subvalues)
Token(kind, value, start, end, subvalues) ==
    [kind |-> kind, value |-> value, start |-> start, end |-> end, subvalues |-> subvalues]

\* a lexeme: what the tokenizer recognises, before it is placed in a text
Lex(kind, value) == [kind |-> kind, value |-> value, subvalues |-> NoSub]

\* a DEPENDENCY or END_EDGE_PROPERTIES lexeme that carries a virtual assignment
LexVA(kind, value, virtuals, substitute) ==
    [kind |-> kind, value |-> value,
     subvalues |-> [virtuals |-> virtuals, substitute |-> substitute]]

\* the vocabularies the outermost text is drawn from
Vocabulary ==
    [ node |->
        { Lex("UNQUALIFIED_PACKAGE_NAME", "foo"),
          Lex("DEPENDENCY", "^"),
          Lex("DEPENDENCY", "%"),
          Lex("VERSION", "@1.0"),
          Lex("GIT_VERSION", "@git.x"),
          Lex("BOOL_VARIANT", "+bar"),
          Lex("DAG_HASH", "/abc") },
      virt |->
        { Lex("UNQUALIFIED_PACKAGE_NAME", "gcc"),
          LexVA("DEPENDENCY", "^c,cxx=gcc", "c,cxx", "gcc"),
          LexVA("DEPENDENCY", "%c=gcc", "c", "gcc"),
          Lex("START_EDGE_PROPERTIES", "^["),
          Lex("START_EDGE_PROPERTIES", "%["),
          Lex("KEY_VALUE_PAIR", "virtuals=c,cxx"),
          Lex("END_EDGE_PROPERTIES", "]") },
      attr |->
        { Lex("FULLY_QUALIFIED_PACKAGE_NAME", "builtin.gcc"),
          Lex("START_EDGE_PROPERTIES", "%["),
          Lex("KEY_VALUE_PAIR", "deptypes=build"),
          Lex("KEY_VALUE_PAIR", "when=+x"),
          Lex("KEY_VALUE_PAIR", "bogus=1"),
          Lex("PROPAGATED_KEY_VALUE_PAIR", "opt==fast"),
          LexVA("END_EDGE_PROPERTIES", "] c=gcc", "c", "gcc") },
      tool |->
        { Lex("UNQUALIFIED_PACKAGE_NAME", "gcc"),
          Lex("UNQUALIFIED_PACKAGE_NAME", "tc"),
          Lex("UNQUALIFIED_PACKAGE_NAME", "tclist"),
          Lex("DEPENDENCY", "^"),
          Lex("DEPENDENCY", "%"),
          Lex("START_EDGE_PROPERTIES", "%["),
          Lex("END_EDGE_PROPERTIES", "]"),
          LexVA("DEPENDENCY", "%c=tc", "c", "tc") },
      bad |->
        { Lex("UNQUALIFIED_PACKAGE_NAME", "tc"),
          Lex("UNQUALIFIED_PACKAGE_NAME", "tcbad"),
          Lex("UNQUALIFIED_PACKAGE_NAME", "tcnest"),
          Lex("DEPENDENCY", "^"),
          Lex("DEPENDENCY", "%"),
          Lex("BOOL_VARIANT", "+bar") },
      conc |->
        { Lex("FILENAME", "./c.json"),
          Lex("UNQUALIFIED_PACKAGE_NAME", "tc"),
          Lex("UNQUALIFIED_PACKAGE_NAME", "clang"),
          Lex("DEPENDENCY", "^"),
          Lex("DEPENDENCY", "%"),
          Lex("START_EDGE_PROPERTIES", "%["),
          Lex("END_EDGE_PROPERTIES", "]"),
          Lex("PROPAGATED_BOOL_VARIANT", "~~shared") },
      one |->
        { Lex("UNQUALIFIED_PACKAGE_NAME", "foo"),
          Lex("START_EDGE_PROPERTIES", "^["),
          Lex("KEY_VALUE_PAIR", "when=''"),
          Lex("KEY_VALUE_PAIR", "when='gcc clang'"),
          Lex("END_EDGE_PROPERTIES", "]") },
      lazy |->
        { Lex("UNQUALIFIED_PACKAGE_NAME", "foo"),
          Lex("VERSION", "@1.0"),
          Lex("BOOL_VARIANT", "+bar"),
          Lex("BOOL_VARIANT", "~bar"),
          Lex("UNEXPECTED", "&") },
      self |->
        { Lex("UNQUALIFIED_PACKAGE_NAME", "foo"),
          Lex("UNQUALIFIED_PACKAGE_NAME", "tcself"),
          Lex("DEPENDENCY", "%") } ]

Scenarios == DOMAIN Vocabulary

\* the configured texts the parser re-enters itself on (toolchain definitions and
\* edge conditions), as the token kinds of SpecTokens split them
Tokenized ==
    [ t \in {"%gcc", "%c=gcc %cxx=gcc", "%clang", "^zlib", "+x", "%tc", "%tcbad",
             "%tcself", "", "gcc clang"} |->
        CASE t = "%gcc" ->
                <<Lex("DEPENDENCY", "%"), Lex("UNQUALIFIED_PACKAGE_NAME", "gcc")>>
          [] t = "%c=gcc %cxx=gcc" ->
                <<LexVA("DEPENDENCY", "%c=gcc", "c", "gcc"),
                  LexVA("DEPENDENCY", "%cxx=gcc", "cxx", "gcc")>>
          [] t = "%clang" ->
                <<Lex("DEPENDENCY", "%"), Lex("UNQUALIFIED_PACKAGE_NAME", "clang")>>
          [] t = "^zlib" ->
                <<Lex("DEPENDENCY", "^"), Lex("UNQUALIFIED_PACKAGE_NAME", "zlib")>>
          [] t = "+x" ->
                <<Lex("BOOL_VARIANT", "+x")>>
          [] t = "" ->
                <<>>
          [] t = "gcc clang" ->
                <<Lex("UNQUALIFIED_PACKAGE_NAME", "gcc"),
                  Lex("UNQUALIFIED_PACKAGE_NAME", "clang")>>
          [] t = "%tc" ->
                <<Lex("DEPENDENCY", "%"), Lex("UNQUALIFIED_PACKAGE_NAME", "tc")>>
          [] t = "%tcbad" ->
                <<Lex("DEPENDENCY", "%"), Lex("UNQUALIFIED_PACKAGE_NAME", "tcbad")>>
          [] t = "%tcself" ->
                <<Lex("DEPENDENCY", "%"), Lex("UNQUALIFIED_PACKAGE_NAME", "tcself")>> ]

\* the text read lazily, token by token
InputText == "<input>"

\* configuration.get("toolchains", {}): a definition is one spec string (is_str)
\* or a list of {spec, when} entries
Toolchains ==
    [ tc     |-> [is_str |-> TRUE, str |-> "%gcc", entries |-> <<>>],
      tclist |-> [is_str |-> FALSE, str |-> "",
                  entries |-> << [spec |-> "%c=gcc %cxx=gcc", when |-> ""],
                                 [spec |-> "%clang", when |-> "+x"] >>],
      tcbad  |-> [is_str |-> FALSE, str |-> "",
                  entries |-> << [spec |-> "%gcc", when |-> ""],
                                 [spec |-> "^zlib", when |-> ""] >>],
      tcnest |-> [is_str |-> FALSE, str |-> "",
                  entries |-> << [spec |-> "%tc", when |-> ""],
                                 [spec |-> "%tcbad", when |-> ""] >>],
      tcself |-> [is_str |-> TRUE, str |-> "%tcself", entries |-> <<>>] ]

\* LEGACY_COMPILER_TO_BUILTIN
LEGACY_COMPILER_TO_BUILTIN == [clang |-> "llvm"]

----------------------------------------------------------------------------
(* TokenContext: the cursor over the token stream.                         *)

\* the stream has nothing more to give
NoLex == [kind |-> "NONE", value |-> "", subvalues |-> NoSub]

\* parseable_tokens(text) before its first token is asked for
NewStream(text) == [text |-> text, idx |-> 0, pos |-> 0, done |-> FALSE]

\* what next(self.token_stream, None) may return: the outermost text is any text of
\* at most MaxLen tokens over the scenario's vocabulary, a configured text is fixed
StreamChoices(stream, scen) ==
    IF stream.done THEN {NoLex}
    ELSE IF stream.text = InputText
    THEN IF stream.idx < MaxLen THEN Vocabulary[scen] \cup {NoLex} ELSE {NoLex}
    ELSE IF stream.idx < Len(Tokenized[stream.text])
         THEN {Tokenized[stream.text][stream.idx + 1]}
         ELSE {NoLex}

\* the token the stream yields for lexeme lx: tokens stand one blank apart
Yield(stream, lx) ==
    IF lx = NoLex THEN NoToken
    ELSE Token(lx.kind, lx.value, stream.pos, stream.pos + Len(lx.value), lx.subvalues)

\* the stream after it yielded lx
Consume(stream, lx) ==
    IF lx = NoLex THEN [stream EXCEPT !.done = TRUE]
    ELSE [stream EXCEPT !.idx = @ + 1, !.pos = @ + Len(lx.value) + 1]

\* TokenContext.__init__ before its call of advance()
NewContext(text) ==
    [token_stream |-> NewStream(text), current_token |-> NoToken,
     next_token |-> NoToken, pushed_tokens |-> <<>>]

\* an advance that serves the pushed tokens oldest first
AdvanceOldestFirst(ctx, lx) ==
    IF ctx.pushed_tokens # <<>>
    THEN [ctx EXCEPT !.current_token = ctx.next_token,
                     !.next_token = Head(ctx.pushed_tokens),
                     !.pushed_tokens = Tail(ctx.pushed_tokens)]
    ELSE [ctx EXCEPT !.current_token = ctx.next_token,
                     !.next_token = Yield(ctx.token_stream, lx),
                     !.token_stream = Consume(ctx.token_stream, lx)]

\* TokenContext.advance; lx is what the stream yields if it is asked
Advance(ctx, lx) ==
    IF ctx.pushed_tokens # <<>>
    THEN [ctx EXCEPT !.current_token = ctx.next_token,
                     !.next_token = Last(ctx.pushed_tokens),
                     !.pushed_tokens = Front(ctx.pushed_tokens)]
    ELSE [ctx EXCEPT !.current_token = ctx.next_token,
                     !.next_token = Yield(ctx.token_stream, lx),
                     !.token_stream = Consume(ctx.token_stream, lx)]

\* an accept that takes a token of any kind
AcceptAnyKind(ctx, kind, lx) ==
    IF ctx.next_token # NoToken
    THEN [ok |-> TRUE, ctx |-> Advance(ctx, lx)]
    ELSE [ok |-> FALSE, ctx |-> ctx]

\* TokenContext.accept: the result and the cursor after the call
Accept(ctx, kind, lx) ==
    IF ctx.next_token # NoToken /\ ctx.next_token.kind = kind
    THEN [ok |-> TRUE, ctx |-> Advance(ctx, lx)]
    ELSE [ok |-> FALSE, ctx |-> ctx]

\* a push_front that does not keep the lookahead it replaces
PushFrontForgetting(ctx, token) ==
    [ctx EXCEPT !.next_token = token]

\* TokenContext.push_front
PushFront(ctx, token) ==
    [ctx EXCEPT !.pushed_tokens = Append(@, ctx.next_token), !.next_token = token]

\* TokenContext.expect
Expect(ctx, kinds) == ctx.next_token # NoToken /\ ctx.next_token.kind \in kinds

\* an expect that takes the token it finds
ExpectCallTaking(ctx, kinds) ==
    [result |-> Expect(ctx, kinds),
     ctx    |-> IF Expect(ctx, kinds) THEN [ctx EXCEPT !.current_token = ctx.next_token]
                ELSE ctx]

\* TokenContext.expect as a call: what it returns and the cursor after it
ExpectCall(ctx, kinds) == [result |-> Expect(ctx, kinds), ctx |-> ctx]

\* a parse_virtual_assignment that does not split the virtuals at the commas
ParseVirtualAssignmentUnsplit(ctx) ==
    LET subvalues == ctx.current_token.subvalues
        pkg       == subvalues.substitute
        token_type == IF Contains(pkg, ".") THEN "FULLY_QUALIFIED_PACKAGE_NAME"
                      ELSE "UNQUALIFIED_PACKAGE_NAME"
        start     == StrIndex(ctx.current_token.value, pkg)
    IN  IF subvalues = NoSub
        THEN [virtuals |-> <<>>, ctx |-> ctx]
        ELSE [virtuals |-> <<subvalues.virtuals>>,
              ctx |-> PushFront(ctx, Token(token_type, pkg, start, start + Len(pkg), NoSub))]

\* parse_virtual_assignment: the virtuals returned and the cursor after the call
ParseVirtualAssignment(ctx) ==
    LET subvalues == ctx.current_token.subvalues
        pkg       == subvalues.substitute
        token_type == IF Contains(pkg, ".") THEN "FULLY_QUALIFIED_PACKAGE_NAME"
                      ELSE "UNQUALIFIED_PACKAGE_NAME"
        start     == StrIndex(ctx.current_token.value, pkg)
    IN  IF subvalues = NoSub
        THEN [virtuals |-> <<>>, ctx |-> ctx]
        ELSE [virtuals |-> Split(subvalues.virtuals, ","),
              ctx |-> PushFront(ctx, Token(token_type, pkg, start, start + Len(pkg), NoSub))]

----------------------------------------------------------------------------
(* spack.spec.Spec, as far as the parser reads and writes it.              *)

\* Spec()
EmptySpec ==
    [name |-> "", namespace |-> "", versions |-> "", variants |-> <<>>,
     abstract_hash |-> "", concrete |-> FALSE, constraints |-> <<>>]

\* the spec files on disk: Spec.from_json / Spec.from_yaml of an existing file
SpecFiles ==
    [ f \in {"./c.json"} |-> [EmptySpec EXCEPT !.name = "c", !.versions = "1.0", !.concrete = TRUE] ]

\* a spec and the nodes it reaches: nodes[1] is the root, edges point into nodes
Graph(nodes, edges) == [nodes |-> nodes, edges |-> edges]

\* Spec._add_flag(name, value, propagate, concrete): merges the flag into the node,
\* idempotently; a second, different value for the same name is rejected
FlagConflict(spec, name, value) ==
    \E i \in 1..Len(spec.variants) :
        spec.variants[i].name = name /\ spec.variants[i].value # value

AddFlagToSpec(spec, name, value, propagate, concrete) ==
    LET flag == [name |-> name, value |-> value, propagate |-> propagate,
                 concrete |-> concrete]
    IN  IF \E i \in 1..Len(spec.variants) : spec.variants[i] = flag
        THEN spec
        ELSE [spec EXCEPT !.variants = Append(@, flag)]

\* Spec._add_dependency(dep, direct, virtuals, depflag, when): one more edge
\* from parent to child
AddDependencyEdge(edges, parent, child, props) ==
    Append(edges, [parent |-> parent, child |-> child, direct |-> props.direct,
                   virtuals |-> props.virtuals, depflag |-> props.depflag,
                   when |-> props.when])

\* Spec.constrain(other): merges the constraint into the node; a concrete spec
\* takes no further constraint
CanConstrain(spec) == ~spec.concrete

ConstrainSpec(spec, other) == [spec EXCEPT !.constraints = Append(@, other)]

\* spack.deptypes.canonicalize: the flag bits of the listed dependency types
DepFlagOf(deptype) ==
    CASE deptype = "build" -> 1
      [] deptype = "link"  -> 2
      [] deptype = "run"   -> 4
      [] deptype = "test"  -> 8
      [] OTHER             -> 0

RECURSIVE Canonicalize(_)
Canonicalize(deptypes) ==
    IF deptypes = <<>> THEN 0
    ELSE LET rest == Canonicalize(Tail(deptypes))
             bit  == DepFlagOf(Head(deptypes))
         IN  IF bit = 0 \/ (rest \div bit) % 2 = 1 THEN rest ELSE rest + bit

RECURSIVE AllEdges(_)
\* Spec.traverse_edges(root=False): the edges of the spec and of what was merged
\* into its nodes
AllEdges(graph) ==
    LET RECURSIVE Merged(_, _)
        Merged(i, j) ==
            IF i > Len(graph.nodes) THEN <<>>
            ELSE IF j > Len(graph.nodes[i].constraints) THEN Merged(i + 1, 1)
            ELSE AllEdges(graph.nodes[i].constraints[j]) \o Merged(i, j + 1)
    IN  graph.edges \o Merged(1, 1)

\* the exception types below spack.error.SpecError
SpecErrors == {"SpecError", "SpecParsingError", "SpecTokenizationError",
               "NoSuchSpecFileError"}

----------------------------------------------------------------------------
(* One activation of SpecParser: its fields and the locals of the methods  *)
(* that are running in it.                                                 *)

NoError == [type |-> "", message |-> "", token |-> NoToken]

\* EdgeAttributeParser.parse: attributes = {}
NoAttributes ==
    [has_virtuals |-> FALSE, virtuals |-> <<>>, has_deptypes |-> FALSE,
     deptypes |-> <<>>, has_when |-> FALSE, when |-> <<>>]

NoEdgeProperties == [direct |-> FALSE, virtuals |-> <<>>, depflag |-> 0, when |-> <<>>]

\* _apply_toolchain / _parse_toolchain not running
NoToolchain == [name |-> "", i |-> 0, toolchain |-> Graph(<<EmptySpec>>, <<>>)]

\* SpecParser(text), before TokenContext.__init__ has advanced; nodes holds
\* initial_spec when the caller passes one
NewParser(text, nodes) ==
    [ pc                |-> "init",
      literal_str       |-> text,
      ctx               |-> NewContext(text),
      parsed_toolchains |-> <<>>,
      parses            |-> <<>>,      \* the names _parse_toolchain was called with
      nodes             |-> nodes,
      edges             |-> <<>>,
      initial_spec      |-> Len(nodes),   \* 0 is None
      root_spec         |-> 0,
      current_spec      |-> 0,
      node              |-> 0,         \* SpecNodeParser.parse: initial_spec
      has_version       |-> FALSE,
      last_compiler     |-> "",
      node_warnings     |-> <<>>,      \* SpecNodeParser.parse: parser_warnings
      after             |-> "",        \* who called SpecNodeParser.parse
      parser_warnings   |-> <<>>,
      warned            |-> <<>>,      \* issues given to warnings.warn
      is_direct         |-> FALSE,
      attributes        |-> NoAttributes,
      edge_properties   |-> NoEdgeProperties,
      tc                |-> NoToolchain,
      error             |-> NoError,
      result            |-> 0 ]

\* raise type(message, token, literal_str)
Raise(f, type, message, token) ==
    [f EXCEPT !.pc = "error",
              !.error = [type |-> type, message |-> message, token |-> token]]

\* a tokenize that hands the UNEXPECTED token to the parser
Eagerly(f, g, lx) ==
    IF lx.kind = "UNEXPECTED"
    THEN Raise([f EXCEPT !.ctx.current_token = f.ctx.next_token,
                         !.ctx.token_stream.done = TRUE],
               "SpecTokenizationError", "unexpected characters in the spec string",
               NoToken)
    ELSE g

\* tokenize under the handler that takes f to g when the text goes on with lx:
\* the generator raises when next() reaches an UNEXPECTED token, inside the
\* advance() that asked for it, after current_token is set and before anything
\* the handler does next
Lazily(f, g, lx) ==
    IF lx.kind = "UNEXPECTED" /\ g.ctx.token_stream # f.ctx.token_stream
    THEN Raise([f EXCEPT !.ctx.current_token = f.ctx.next_token,
                         !.ctx.token_stream.done = TRUE],
               "SpecTokenizationError", "unexpected characters in the spec string",
               NoToken)
    ELSE g

\* the running activation
Top == frames[Len(frames)]

\* the spec an activation has built
GraphOf(f) == Graph(f.nodes, f.edges)

----------------------------------------------------------------------------
(* SpecNodeParser.parse                                                    *)

\* parse returns (initial_spec, parser_warnings) to the code that called it
NodeReturn(f) ==
    IF f.after = "root"
    THEN [f EXCEPT !.pc = "loop", !.root_spec = f.node, !.current_spec = f.node,
                   !.parser_warnings = f.node_warnings]
    ELSE [f EXCEPT !.pc = "attach"]

\* FileParser.parse
FileParse(f) ==
    LET file == f.ctx.current_token.value
    IN  IF file \notin DOMAIN SpecFiles
        THEN Raise(f, "NoSuchSpecFileError", "No such spec file", NoToken)
        ELSE NodeReturn([f EXCEPT !.nodes[f.node] = SpecFiles[file]])

\* the head of parse: the empty spec, the name, the file reference
NodeBegin(f0, lx) ==
    LET f  == IF f0.node = 0
              THEN [f0 EXCEPT !.nodes = Append(@, EmptySpec), !.node = Len(f0.nodes) + 1]
              ELSE f0
        n  == f.node
        un == Accept(f.ctx, "UNQUALIFIED_PACKAGE_NAME", lx)
        fq == Accept(f.ctx, "FULLY_QUALIFIED_PACKAGE_NAME", lx)
        fn == Accept(f.ctx, "FILENAME", lx)
        parts == Split(fq.ctx.current_token.value, ".")
    IN  IF f.ctx.next_token = NoToken \/ Expect(f.ctx, {"DEPENDENCY"})
        THEN NodeReturn(f)
        ELSE IF un.ok
        THEN [f EXCEPT !.ctx = un.ctx, !.pc = "node_loop",
                       !.nodes[n].name = IF un.ctx.current_token.value # "*"
                                         THEN un.ctx.current_token.value ELSE @]
        ELSE IF fq.ok
        THEN [f EXCEPT !.ctx = fq.ctx, !.pc = "node_loop",
                       !.nodes[n].name = Last(parts),
                       !.nodes[n].namespace = Join(Front(parts), ".")]
        ELSE IF fn.ok
        THEN FileParse([f EXCEPT !.ctx = fn.ctx])
        ELSE [f EXCEPT !.pc = "node_loop"]

\* parse.warn_if_after_compiler (the message without its backquotes)
WarnIfAfterCompiler(f, token) ==
    IF f.last_compiler # ""
    THEN [f EXCEPT !.node_warnings =
              Append(@, token \o " should go before " \o f.last_compiler)]
    ELSE f

\* an add_flag that sets the flags of a child on the root
AddFlagOnRoot(f, name, value, propagate, concrete) ==
    LET n == IF f.after = "dep" THEN f.root_spec ELSE f.node
    IN  IF FlagConflict(f.nodes[n], name, value)
        THEN Raise(f, "SpecParsingError", "cannot set the flag", f.ctx.current_token)
        ELSE [f EXCEPT !.nodes[n] = AddFlagToSpec(@, name, value, propagate, concrete)]

\* parse.add_flag: Spec._add_flag with its errors turned into SpecParsingError
AddFlag(f, name, value, propagate, concrete) ==
    IF FlagConflict(f.nodes[f.node], name, value)
    THEN Raise(f, "SpecParsingError", "cannot set the flag", f.ctx.current_token)
    ELSE [f EXCEPT !.nodes[f.node] = AddFlagToSpec(@, name, value, propagate, concrete)]

\* the double quote character
DQ == SubSeq("a\"b", 2, 2)

\* the backslash and the newline
BS == SubSeq("a\\b", 2, 2)
NL == "\n"

\* what a pattern that ends in $ is matched against: $ matches at the end of the
\* string and before a newline that ends it
BeforeDollar(string) ==
    IF Len(string) >= 1 /\ SubSeq(string, Len(string), Len(string)) = NL
    THEN SubSeq(string, 1, Len(string) - 1)
    ELSE string

\* strip_quotes_and_unescape: STRIP_QUOTES matches a string in a pair of equal
\* quotes with no newline between them; the escaped quotes of that kind are
\* unescaped
StripQuotesAndUnescape(string) ==
    LET body   == BeforeDollar(string)
        quote  == SubSeq(body, 1, 1)
        result == SubSeq(body, 2, Len(body) - 1)
    IN  IF Len(body) >= 2 /\ quote \in {"'", DQ} /\ EndsWith(body, quote)
                          /\ ~Contains(result, NL)
        THEN Replace(result, BS \o quote, quote)
        ELSE string

\* a key-value pair token, split at sep ("=" or "==")
KeyValue(f, sep, propagate) ==
    LET kv       == SplitOnce(f.ctx.current_token.value, sep)
        concrete == EndsWith(kv[1], ":")
        name     == IF concrete THEN SubSeq(kv[1], 1, Len(kv[1]) - 1) ELSE kv[1]
    IN  AddFlag(f, name, StripQuotesAndUnescape(kv[2]), propagate, concrete)

\* whether the step raised
Raised(f) == f.pc = "error"

\* one turn of the loop of parse
NodeLoop(f, lx) ==
    LET n    == f.node
        kind == f.ctx.next_token.kind
        g    == [f EXCEPT !.ctx = Advance(f.ctx, lx)]
        cur  == g.ctx.current_token
        Then(h) == IF Raised(h) THEN h ELSE WarnIfAfterCompiler(h, cur.value)
    IN  IF kind \in {"VERSION_HASH_PAIR", "GIT_VERSION", "VERSION"}
        THEN IF g.has_version
             THEN Raise(g, "SpecParsingError", "Spec cannot have multiple versions", cur)
             ELSE Then([g EXCEPT !.nodes[n].versions = From(cur.value, 1),
                                 !.has_version = TRUE])
        ELSE IF kind = "BOOL_VARIANT"
        THEN Then(AddFlag(g, Strip(From(cur.value, 1), {" "}),
                          IF SubSeq(cur.value, 1, 1) = "+" THEN "True" ELSE "False",
                          FALSE, TRUE))
        ELSE IF kind = "PROPAGATED_BOOL_VARIANT"
        THEN Then(AddFlag(g, Strip(From(cur.value, 2), {" "}),
                          IF SubSeq(cur.value, 1, 2) = "++" THEN "True" ELSE "False",
                          TRUE, TRUE))
        ELSE IF kind = "KEY_VALUE_PAIR"
        THEN Then(KeyValue(g, "=", FALSE))
        ELSE IF kind = "PROPAGATED_KEY_VALUE_PAIR"
        THEN Then(KeyValue(g, "==", TRUE))
        ELSE IF kind = "DAG_HASH"
        THEN IF f.nodes[n].abstract_hash # ""
             THEN NodeReturn(f)
             ELSE Then([g EXCEPT !.nodes[n].abstract_hash = From(cur.value, 1)])
        ELSE NodeReturn(f)

----------------------------------------------------------------------------
(* SpecParser.next_spec and what it calls                                  *)

\* next_spec up to its call of SpecNodeParser.parse for the root
NextSpec(f) ==
    IF f.ctx.next_token = NoToken
    THEN [f EXCEPT !.pc = "return", !.result = f.initial_spec]
    ELSE LET g == IF f.initial_spec = 0
                  THEN [f EXCEPT !.nodes = Append(@, EmptySpec),
                                 !.initial_spec = Len(f.nodes) + 1]
                  ELSE f
         IN  [g EXCEPT !.pc = "node", !.node = g.initial_spec, !.has_version = FALSE,
                       !.last_compiler = "", !.node_warnings = <<>>, !.after = "root"]

\* a parser that reuses one SpecNodeParser, and so its has_version, for every child
ParseNodeSharedParser(f) ==
    [f EXCEPT !.pc = "node", !.node = 0, !.last_compiler = "",
              !.node_warnings = <<>>, !.after = "dep"]

\* _parse_node: a new SpecNodeParser parses the child
ParseNode(f) ==
    [f EXCEPT !.pc = "node", !.node = 0, !.has_version = FALSE, !.last_compiler = "",
              !.node_warnings = <<>>, !.after = "dep"]

\* is_direct = self.ctx.current_token.value[0] == "%"
IsDirect(token) == SubSeq(token.value, 1, 1) = "%"

\* a toolchain check that forgets to ask for the absence of a virtual assignment
IsToolchainReferenceAnyPercent(virtuals, is_direct, next_token) ==
    is_direct /\ next_token.value \in DOMAIN Toolchains

\* not virtuals and is_direct and self.ctx.next_token.value in self.toolchains
IsToolchainReference(virtuals, is_direct, next_token) ==
    virtuals = <<>> /\ is_direct /\ next_token.value \in DOMAIN Toolchains

\* one turn of the loop of next_spec, up to the parse of the child
Loop(f, lx) ==
    LET se == Accept(f.ctx, "START_EDGE_PROPERTIES", lx)
        de == Accept(f.ctx, "DEPENDENCY", lx)
        is_direct == IsDirect(de.ctx.current_token)
        pva == ParseVirtualAssignment(de.ctx)
        g   == [f EXCEPT !.ctx = pva.ctx, !.is_direct = is_direct]
    IN  IF se.ok
        THEN [f EXCEPT !.ctx = se.ctx, !.is_direct = IsDirect(se.ctx.current_token),
                       !.attributes = NoAttributes, !.pc = "edge_attrs"]
        ELSE IF de.ok
        THEN IF pva.virtuals = <<>> /\ is_direct /\ g.ctx.next_token = NoToken
             THEN Raise(g, "AttributeError", "'NoneType' object has no attribute 'value'",
                        NoToken)
             ELSE IF IsToolchainReference(pva.virtuals, is_direct, g.ctx.next_token)
             THEN [g EXCEPT !.pc = "toolchain"]
             ELSE ParseNode([g EXCEPT !.edge_properties =
                      [direct |-> is_direct, virtuals |-> pva.virtuals,
                       depflag |-> 0, when |-> <<>>]])
        ELSE [f EXCEPT !.pc = "return", !.warned = f.parser_warnings,
                       !.result = f.root_spec]

\* a parser that hangs every child under the node it parsed last
TargetSpecChained(f) == f.current_spec

\* the spec the child is attached to
TargetSpec(f) == IF f.is_direct THEN f.current_spec ELSE f.root_spec

\* a parser in which every child becomes the current spec
CurrentSpecAlwaysChild(f) == f.node

\* the current spec once the child is attached
CurrentSpecAfter(f) == IF f.is_direct THEN f.current_spec ELSE f.node

\* the name the child is attached under
DependencyName(f) ==
    LET name == f.nodes[f.node].name
    IN  IF f.is_direct /\ name \in DOMAIN LEGACY_COMPILER_TO_BUILTIN
        THEN LEGACY_COMPILER_TO_BUILTIN[name] ELSE name

\* whether _parse_node refuses the child it parsed
RefusesChild(f) == f.nodes[f.root_spec].concrete

\* the rest of _parse_node and of the turn of the loop: the child parse returned
\* a spec (it never returns None), which is attached
Attach(f) ==
    IF RefusesChild(f)
    THEN Raise(f, "SpecError", "^" \o f.nodes[f.node].name, NoToken)
    ELSE [f EXCEPT !.nodes[f.node].name = DependencyName(f),
                   !.current_spec = CurrentSpecAfter(f),
                   !.parser_warnings = @ \o f.node_warnings,
                   !.edges = AddDependencyEdge(@, TargetSpec(f), f.node,
                                               f.edge_properties),
                   !.pc = "loop"]

----------------------------------------------------------------------------
(* EdgeAttributeParser.parse                                               *)

\* attributes[name] = value
SetAttribute(attributes, name, value) ==
    CASE name = "virtuals" -> [attributes EXCEPT !.has_virtuals = TRUE, !.virtuals = value]
      [] name = "deptypes" -> [attributes EXCEPT !.has_deptypes = TRUE, !.deptypes = value]
      [] name = "when"     -> [attributes EXCEPT !.has_when = TRUE, !.when = value]
      [] OTHER             -> attributes

\* parse returns the attributes; next_spec fills in the defaults and parses the child
EdgeAttrsReturn(f) ==
    ParseNode([f EXCEPT !.edge_properties =
        [direct   |-> f.is_direct,
         virtuals |-> f.attributes.virtuals,
         depflag  |-> IF f.attributes.has_deptypes
                      THEN Canonicalize(f.attributes.deptypes) ELSE 0,
         when     |-> IF f.attributes.has_when THEN <<f.attributes.when[1]>> ELSE <<>>]])

\* an EdgeAttributeParser.parse that takes any key
EdgeAttrsAnyKey(f, lx) ==
    LET kv    == Accept(f.ctx, "KEY_VALUE_PAIR", lx)
        en    == Accept(f.ctx, "END_EDGE_PROPERTIES", lx)
        parts == SplitOnce(kv.ctx.current_token.value, "=")
        name  == IF EndsWith(parts[1], ":")
                 THEN SubSeq(parts[1], 1, Len(parts[1]) - 1) ELSE parts[1]
        value == Split(Strip(parts[2], {"'", DQ, " "}), ",")
        set   == [f EXCEPT !.ctx = kv.ctx, !.attributes = SetAttribute(@, name, value)]
        pva   == ParseVirtualAssignment(en.ctx)
        end   == [f EXCEPT !.ctx = pva.ctx,
                           !.attributes.has_virtuals = TRUE,
                           !.attributes.virtuals = @ \o pva.virtuals]
    IN  IF kv.ok
        THEN set
        ELSE IF en.ok
        THEN IF end.attributes.has_when
             THEN [end EXCEPT !.pc = "parse_when"]
             ELSE EdgeAttrsReturn(end)
        ELSE Raise(f, "SpecParsingError", "unexpected token in edge attributes",
                   f.ctx.next_token)

\* one turn of the loop of parse
EdgeAttrs(f, lx) ==
    LET kv    == Accept(f.ctx, "KEY_VALUE_PAIR", lx)
        en    == Accept(f.ctx, "END_EDGE_PROPERTIES", lx)
        parts == SplitOnce(kv.ctx.current_token.value, "=")
        name  == IF EndsWith(parts[1], ":")
                 THEN SubSeq(parts[1], 1, Len(parts[1]) - 1) ELSE parts[1]
        value == Split(Strip(parts[2], {"'", DQ, " "}), ",")
        set   == [f EXCEPT !.ctx = kv.ctx, !.attributes = SetAttribute(@, name, value)]
        pva   == ParseVirtualAssignment(en.ctx)
        end   == [f EXCEPT !.ctx = pva.ctx,
                           !.attributes.has_virtuals = TRUE,
                           !.attributes.virtuals = @ \o pva.virtuals]
    IN  IF kv.ok
        THEN IF name \notin {"deptypes", "virtuals", "when"}
             THEN Raise(set, "SpecParsingError",
                        "the only edge attributes that are currently accepted",
                        kv.ctx.current_token)
             ELSE set
        ELSE IF en.ok
        THEN IF end.attributes.has_when
             THEN [end EXCEPT !.pc = "parse_when"]
             ELSE EdgeAttrsReturn(end)
        ELSE Raise(f, "SpecParsingError", "unexpected token in edge attributes",
                   f.ctx.next_token)

----------------------------------------------------------------------------
(* Toolchains: _apply_toolchain, _parse_toolchain, _ensure_all_direct_edges *)

\* an _apply_toolchain that never finds the name among the parsed toolchains
IsParsedNever(f, name) == FALSE

\* name in self.parsed_toolchains
IsParsed(f, name) ==
    \E i \in 1..Len(f.parsed_toolchains) : f.parsed_toolchains[i].name = name

\* self.parsed_toolchains[name]
ParsedToolchain(f, name) ==
    LET i == CHOOSE i \in 1..Len(f.parsed_toolchains) : f.parsed_toolchains[i].name = name
    IN  f.parsed_toolchains[i].toolchain

\* self.parsed_toolchains[name] = toolchain
StoreToolchain(parsed, name, toolchain) ==
    Append(parsed, [name |-> name, toolchain |-> toolchain])

\* the except clause around _apply_toolchain in next_spec
ToolchainError(f, type, message, token) ==
    IF type \in SpecErrors
    THEN Raise(f, "SpecParsingError", message, f.ctx.current_token)
    ELSE Raise(f, type, message, token)

\* the end of _apply_toolchain: spec.constrain(self.parsed_toolchains[name])
ConstrainCurrent(f, name) ==
    IF CanConstrain(f.nodes[f.current_spec])
    THEN [f EXCEPT !.nodes[f.current_spec] = ConstrainSpec(@, ParsedToolchain(f, name)),
                   !.tc = NoToolchain, !.pc = "loop"]
    ELSE ToolchainError(f, "SpecError", "cannot constrain a concrete spec", NoToken)

\* the toolchain branch of next_spec: the name is accepted and _apply_toolchain starts
ApplyToolchain(f, lx) ==
    LET ac   == Accept(f.ctx, "UNQUALIFIED_PACKAGE_NAME", lx)
        g    == [f EXCEPT !.ctx = ac.ctx]
        name == ac.ctx.current_token.value
    IN  IF ~ac.ok
        THEN Raise(f, "AssertionError", "", NoToken)
        ELSE IF IsParsed(g, name)
        THEN ConstrainCurrent(g, name)
        ELSE [g EXCEPT !.pc = "parse_toolchain", !.parses = Append(@, name),
                       !.tc = [NoToolchain EXCEPT !.name = name]]

\* the text _parse_toolchain hands to parse_one_or_raise next
ToolchainText(f) ==
    LET config == Toolchains[f.tc.name]
    IN  IF config.is_str THEN config.str ELSE config.entries[f.tc.i + 1].spec

\* whether _parse_toolchain has a text left to parse
ToolchainPending(f) ==
    LET config == Toolchains[f.tc.name]
    IN  IF config.is_str THEN f.tc.i = 0 ELSE f.tc.i < Len(config.entries)

\* an _ensure_all_direct_edges that lets every edge pass
AllDirectUnchecked(graph) == TRUE

\* _ensure_all_direct_edges does not raise
AllDirect(graph) ==
    LET edges == AllEdges(graph) IN \A i \in 1..Len(edges) : edges[i].direct

\* edge.when.constrain(when) for every edge of the part
WithCondition(graph, when) ==
    IF when = "" THEN graph
    ELSE [graph EXCEPT !.edges = [i \in 1..Len(graph.edges) |->
                                    [graph.edges[i] EXCEPT !.when = Append(@, when)]]]

\* _parse_toolchain goes on with the spec parse_one_or_raise returned
ToolchainPart(f, part) ==
    LET config == Toolchains[f.tc.name]
        when   == config.entries[f.tc.i + 1].when
    IN  IF ~AllDirect(part)
        THEN ToolchainError(f, "SpecError", "cannot use '^' in toolchain definitions",
                            NoToken)
        ELSE IF config.is_str
        THEN [f EXCEPT !.tc.toolchain = part, !.tc.i = 1, !.pc = "parse_toolchain"]
        ELSE [f EXCEPT !.tc.toolchain.nodes[1] =
                           ConstrainSpec(@, WithCondition(part, when)),
                       !.tc.i = @ + 1, !.pc = "parse_toolchain"]

\* _parse_toolchain returned: the toolchain is memoized and constrains the spec
ToolchainParsed(f) ==
    ConstrainCurrent(
        [f EXCEPT !.parsed_toolchains = StoreToolchain(@, f.tc.name, f.tc.toolchain)],
        f.tc.name)

----------------------------------------------------------------------------
(* parse_one_or_raise, as the parser calls it on configured texts          *)

\* the underline of "expected a single spec, but got more": next_token.start
\* blanks and len(next_token.value) carets
ParseOneUnderline(g) ==
    [start |-> g.ctx.next_token.start, length |-> Len(g.ctx.next_token.value)]

\* a parse_one_or_raise that does not look at what next_spec left in the stream
ParseOneOutcomeLenient(g) ==
    IF g.result = 0
    THEN [ok |-> FALSE,
          error |-> [type |-> "ValueError",
                     message |-> "expected a single spec, but got none",
                     token |-> NoToken]]
    ELSE [ok |-> TRUE, error |-> NoError]

\* what the call returns or raises: the activation g has finished next_spec
ParseOneOutcome(g) ==
    IF g.ctx.next_token # NoToken
    THEN [ok |-> FALSE,
          error |-> [type |-> "ValueError",
                     message |-> "expected a single spec, but got more",
                     token |-> g.ctx.next_token]]
    ELSE IF g.result = 0
    THEN [ok |-> FALSE,
          error |-> [type |-> "ValueError",
                     message |-> "expected a single spec, but got none",
                     token |-> NoToken]]
    ELSE [ok |-> TRUE, error |-> NoError]

\* the caller f of parse_one_or_raise gets the exception e
CallerRaise(f, e) ==
    IF f.pc = "toolchain_wait"
    THEN ToolchainError(f, e.type, e.message, e.token)
    ELSE Raise(f, e.type, e.message, e.token)

\* the caller f of parse_one_or_raise gets the spec
CallerResume(f, graph) ==
    IF f.pc = "toolchain_wait"
    THEN ToolchainPart(f, graph)
    ELSE EdgeAttrsReturn(f)

----------------------------------------------------------------------------
(* The state machine.                                                      *)

\* the specs a caller may pass as initial_spec: none, or a concrete one
InitialSpecs == {<<>>, <<SpecFiles["./c.json"]>>}

Init ==
    /\ scenario \in Scenarios
    /\ tok = NoCall
    /\ fmt = NoCall
    /\ fix = NoCall
    /\ cursor = NoCall
    /\ quo = NoCall
    /\ \E nodes \in InitialSpecs : frames = <<NewParser(InputText, nodes)>>

\* the running activation becomes f
Run(f) == frames' = [frames EXCEPT ![Len(frames)] = f]

\* the tokens the running activation may read next
Choices == StreamChoices(Top.ctx.token_stream, scenario)

\* TokenContext.__init__: the first advance()
Construct ==
    /\ Top.pc = "init"
    /\ \E lx \in Choices : Run(Lazily(Top, [Top EXCEPT !.ctx = Advance(@, lx), !.pc = "next_spec"], lx))
    /\ UNCHANGED <<scenario, calls>>

NextSpecStep ==
    /\ Top.pc = "next_spec"
    /\ Run(NextSpec(Top))
    /\ UNCHANGED <<scenario, calls>>

NodeBeginStep ==
    /\ Top.pc = "node"
    /\ \E lx \in Choices : Run(Lazily(Top, NodeBegin(Top, lx), lx))
    /\ UNCHANGED <<scenario, calls>>

NodeLoopStep ==
    /\ Top.pc = "node_loop"
    /\ \E lx \in Choices : Run(Lazily(Top, NodeLoop(Top, lx), lx))
    /\ UNCHANGED <<scenario, calls>>

LoopStep ==
    /\ Top.pc = "loop"
    /\ \E lx \in Choices : Run(Lazily(Top, Loop(Top, lx), lx))
    /\ UNCHANGED <<scenario, calls>>

EdgeAttrsStep ==
    /\ Top.pc = "edge_attrs"
    /\ \E lx \in Choices : Run(Lazily(Top, EdgeAttrs(Top, lx), lx))
    /\ UNCHANGED <<scenario, calls>>

AttachStep ==
    /\ Top.pc = "attach"
    /\ Run(Attach(Top))
    /\ UNCHANGED <<scenario, calls>>

ApplyToolchainStep ==
    /\ Top.pc = "toolchain"
    /\ \E lx \in Choices : Run(Lazily(Top, ApplyToolchain(Top, lx), lx))
    /\ UNCHANGED <<scenario, calls>>

\* _parse_toolchain calls parse_one_or_raise on its next text
ParseToolchainCall ==
    /\ Top.pc = "parse_toolchain"
    /\ ToolchainPending(Top)
    /\ Len(frames) < MaxDepth
    /\ frames' = Append([frames EXCEPT ![Len(frames)].pc = "toolchain_wait"],
                        NewParser(ToolchainText(Top), <<>>))
    /\ UNCHANGED <<scenario, calls>>

ToolchainParsedStep ==
    /\ Top.pc = "parse_toolchain"
    /\ ~ToolchainPending(Top)
    /\ Run(ToolchainParsed(Top))
    /\ UNCHANGED <<scenario, calls>>

\* EdgeAttributeParser.parse calls parse_one_or_raise on the when attribute
ParseWhenCall ==
    /\ Top.pc = "parse_when"
    /\ Len(frames) < MaxDepth
    /\ frames' = Append([frames EXCEPT ![Len(frames)].pc = "when_wait"],
                        NewParser(Top.attributes.when[1], <<>>))
    /\ UNCHANGED <<scenario, calls>>

\* parse_one_or_raise ends: next_spec returned, the caller goes on
ParseOneReturn ==
    /\ Len(frames) > 1
    /\ Top.pc = "return"
    /\ LET caller  == frames[Len(frames) - 1]
           outcome == ParseOneOutcome(Top)
       IN  frames' = Append(SubSeq(frames, 1, Len(frames) - 2),
                            IF outcome.ok THEN CallerResume(caller, GraphOf(Top))
                            ELSE CallerRaise(caller, outcome.error))
    /\ UNCHANGED <<scenario, calls>>

\* next_spec raised inside parse_one_or_raise: the exception reaches the caller
ParseOneRaise ==
    /\ Len(frames) > 1
    /\ Top.pc = "error"
    /\ frames' = Append(SubSeq(frames, 1, Len(frames) - 2),
                        CallerRaise(frames[Len(frames) - 1], Top.error))
    /\ UNCHANGED <<scenario, calls>>

Next ==
    \/ Construct
    \/ NextSpecStep
    \/ NodeBeginStep
    \/ NodeLoopStep
    \/ LoopStep
    \/ EdgeAttrsStep
    \/ AttachStep
    \/ ApplyToolchainStep
    \/ ParseToolchainCall
    \/ ToolchainParsedStep
    \/ ParseWhenCall
    \/ ParseOneReturn
    \/ ParseOneRaise

Spec == Init /\ [][Next]_vars

----------------------------------------------------------------------------
(* Observations of a step, for the properties below.                      *)

\* the running activation after the step
TopAfter == frames'[Len(frames')]

\* the step neither calls nor returns from parse_one_or_raise
SameDepth == Len(frames') = Len(frames)

\* the activation that parses the outermost text
Outer == frames[1]

\* the running activation is about to accept a sigil that starts with c
AtSigil(c) ==
    /\ Top.pc = "loop"
    /\ Top.ctx.next_token.kind \in {"DEPENDENCY", "START_EDGE_PROPERTIES"}
    /\ SubSeq(Top.ctx.next_token.value, 1, 1) = c

\* is_direct changes only in the turn of the loop that accepts a sigil
KeepsIsDirect ==
    \A i \in 1..Len(frames) :
        (i <= Len(frames') /\ frames[i].pc # "loop")
            => frames'[i].is_direct = frames[i].is_direct

\* the step attaches the child the running activation has parsed
Attaches == Top.pc = "attach" /\ SameDepth /\ ~Raised(TopAfter)

\* the edge the step added, all earlier edges being as they were
AddedEdge == Last(TopAfter.edges)

AddsOneEdge ==
    /\ Len(TopAfter.edges) = Len(Top.edges) + 1
    /\ Front(TopAfter.edges) = Top.edges

\* the child of the last ^ edge, the root if there is none
LastCaretChild(f) ==
    LET carets == {i \in 1..Len(f.edges) : ~f.edges[i].direct}
    IN  IF carets = {} THEN f.root_spec
        ELSE f.edges[CHOOSE i \in carets : \A j \in carets : j <= i].child

VersionKinds == {"VERSION_HASH_PAIR", "GIT_VERSION", "VERSION"}

----------------------------------------------------------------------------
\* C1: every ^ sigil, bare or bracketed, makes is_direct false, and the child parsed
\* after it is attached by one new edge whose parent is the root and whose direct
\* flag is false, whatever edges were added before; the earlier edges stay.
C1_CaretStep ==
    /\ (AtSigil("^") /\ SameDepth /\ ~Raised(TopAfter))
          => ~TopAfter.is_direct /\ TopAfter.pc \in {"edge_attrs", "node"}
    /\ KeepsIsDirect
    /\ (Attaches /\ ~Top.is_direct)
          => /\ AddsOneEdge
             /\ AddedEdge.parent = Top.root_spec
             /\ AddedEdge.child = Top.node
             /\ AddedEdge.direct = FALSE

C1_CaretAttachesToRoot == [][C1_CaretStep]_vars

\* two ^ children after a % child, all three under the root: foo %x ^a ^b
C1_Witness ==
    /\ Len(Outer.edges) = 3
    /\ Outer.edges[1].direct
    /\ \A i \in {2, 3} : ~Outer.edges[i].direct /\ Outer.edges[i].parent = Outer.root_spec
    /\ Outer.edges[2].child # Outer.edges[3].child

----------------------------------------------------------------------------
\* C2: every % sigil that is not a toolchain reference makes is_direct true and
\* leaves the current spec alone; the child parsed after it is attached by one new
\* edge with direct true whose parent is the current spec, and the current spec is
\* always the child of the last ^ edge, or the root when there is none.
C2_CurrentIsLastCaretChild ==
    \A i \in 1..Len(frames) :
        frames[i].root_spec # 0 => frames[i].current_spec = LastCaretChild(frames[i])

C2_PercentStep ==
    /\ (AtSigil("%") /\ SameDepth /\ ~Raised(TopAfter) /\ TopAfter.pc # "toolchain")
          => /\ TopAfter.is_direct
             /\ TopAfter.pc \in {"edge_attrs", "node"}
             /\ TopAfter.current_spec = Top.current_spec
    /\ KeepsIsDirect
    /\ (Attaches /\ Top.is_direct)
          => /\ AddsOneEdge
             /\ AddedEdge.parent = Top.current_spec
             /\ AddedEdge.child = Top.node
             /\ AddedEdge.direct = TRUE
             /\ TopAfter.current_spec = Top.current_spec
    /\ C2_CurrentIsLastCaretChild
    /\ C2_CurrentIsLastCaretChild'

C2_PercentAttachesToCurrent == [][C2_PercentStep]_vars

\* %x ^b %y: x hangs under the root, y under b
C2_Witness ==
    /\ Len(Outer.edges) = 3
    /\ Outer.edges[1].direct /\ Outer.edges[1].parent = Outer.root_spec
    /\ ~Outer.edges[2].direct
    /\ Outer.edges[3].direct /\ Outer.edges[3].parent = Outer.edges[2].child
    /\ Outer.edges[3].parent # Outer.root_spec

----------------------------------------------------------------------------
\* C3: in a text that tokenizes, a version token met while the node being parsed
\* has already taken one raises SpecParsingError "Spec cannot have multiple
\* versions" at that token and leaves the node as it was; the first version token
\* of a node is taken; variants, flags and hashes in between do not forget the
\* first version; every node starts with no version taken, so versions of
\* different nodes do not conflict.
C3_VersionStep ==
    /\ (Top.pc = "node_loop" /\ Top.ctx.next_token.kind \in VersionKinds
            /\ TopAfter.error.type # "SpecTokenizationError")
          => IF Top.has_version
             THEN /\ Raised(TopAfter)
                  /\ TopAfter.error =
                        [type |-> "SpecParsingError",
                         message |-> "Spec cannot have multiple versions",
                         token |-> Top.ctx.next_token]
                  /\ TopAfter.nodes = Top.nodes
             ELSE /\ ~Raised(TopAfter)
                  /\ TopAfter.has_version
                  /\ TopAfter.nodes[Top.node].versions =
                        From(Top.ctx.next_token.value, 1)
    /\ (Top.pc = "node_loop" /\ SameDepth /\ TopAfter.pc = "node_loop"
            /\ Top.ctx.next_token.kind \notin VersionKinds)
          => TopAfter.has_version = Top.has_version
    /\ (Top.pc = "node" /\ SameDepth /\ TopAfter.pc = "node_loop")
          => ~TopAfter.has_version
    /\ (Top.pc = "node_loop" /\ ~Top.nodes[Top.node].concrete)
          => (Top.has_version <=> Top.nodes[Top.node].versions # "")

C3_SecondVersionRaises == [][C3_VersionStep]_vars

\* foo@1.0 +bar @git.x: the second version is refused after a variant, at its token
C3_Witness ==
    /\ Outer.pc = "error"
    /\ Outer.error.message = "Spec cannot have multiple versions"
    /\ Outer.error.token.value = "@git.x"
    /\ Outer.nodes[Outer.node].versions = "1.0"
    /\ Outer.nodes[Outer.node].variants # <<>>

----------------------------------------------------------------------------
(* Running an activation over a given continuation of its text.            *)

\* the handler an activation runs where it stands
Step(f, lx) ==
    CASE f.pc = "loop"       -> Loop(f, lx)
      [] f.pc = "node"       -> NodeBegin(f, lx)
      [] f.pc = "node_loop"  -> NodeLoop(f, lx)
      [] f.pc = "edge_attrs" -> EdgeAttrs(f, lx)
      [] f.pc = "attach"     -> Attach(f)
      [] OTHER               -> f

\* the lexemes left once the step from f to g has read what it read of lxs
Unread(f, g, lxs) ==
    IF g.ctx.token_stream # f.ctx.token_stream /\ lxs # <<>> THEN Tail(lxs) ELSE lxs

\* what the stream yields next when lxs is the rest of the text
NextLex(lxs) == IF lxs = <<>> THEN NoLex ELSE Head(lxs)

RECURSIVE RunTurn(_, _)
\* the activation at the end of the turn of the loop of next_spec it is in,
\* with lxs the rest of its text
RunTurn(f, lxs) ==
    IF f.pc \notin {"node", "node_loop", "edge_attrs", "attach"} THEN f
    ELSE LET g == Step(f, NextLex(lxs))
         IN  RunTurn(g, Unread(f, g, lxs))

\* one whole turn of the loop of next_spec
Turn(f, lxs) ==
    LET g == Loop(f, NextLex(lxs))
    IN  RunTurn(g, Unread(f, g, lxs))

\* a token without its place in the text
Unplaced(token) == [token EXCEPT !.start = 0, !.end = 0]

\* what a turn leaves behind, places in the text and the locals of
\* EdgeAttributeParser.parse apart
Outcome(f) ==
    [f EXCEPT !.ctx.token_stream.idx = 0, !.ctx.token_stream.pos = 0,
              !.ctx.current_token = Unplaced(@), !.ctx.next_token = Unplaced(@),
              !.error.token = Unplaced(@), !.attributes = NoAttributes]

\* the texts of at most two tokens that may follow
Continuations ==
    {<<>>} \cup {<<a>> : a \in Vocabulary[scenario]}
           \cup {<<a, b>> : a, b \in Vocabulary[scenario]}

\* the running activation is about to accept a sigil with a virtual assignment
AtVirtualAssignment ==
    /\ Top.pc = "loop"
    /\ Top.ctx.next_token.kind = "DEPENDENCY"
    /\ Top.ctx.next_token.subvalues # NoSub

\* the same activation with the sigil written as the opening of a bracketed block
Bracketed(f) ==
    LET sigil == f.ctx.next_token
    IN  [f EXCEPT !.ctx.next_token =
            Token("START_EDGE_PROPERTIES", SubSeq(sigil.value, 1, 1) \o "[",
                  sigil.start, sigil.start + 2, NoSub)]

\* the rest of the bracketed form of the virtual assignment in token
BracketedRest(token) ==
    LET pkg == token.subvalues.substitute
    IN  << Lex("KEY_VALUE_PAIR", "virtuals=" \o token.subvalues.virtuals),
           Lex("END_EDGE_PROPERTIES", "]"),
           Lex(IF Contains(pkg, ".") THEN "FULLY_QUALIFIED_PACKAGE_NAME"
               ELSE "UNQUALIFIED_PACKAGE_NAME", pkg) >>

----------------------------------------------------------------------------
\* C4: wherever the parser meets a sigil with a virtual assignment V=p, and whatever
\* follows it, the turn of the loop ends as it does for the bracketed form
\* [virtuals=V] p followed by the same tokens: the same nodes and edges, the same
\* current spec, the same cursor but for the places in the text, the same error
\* if any; and when a child is attached, its edge has the virtuals of V in their
\* order, the direct flag of the sigil and depflag 0.
C4_ShorthandIsBracketed ==
    AtVirtualAssignment =>
        \A lxs \in Continuations :
            LET sigil == Top.ctx.next_token
                short == Turn(Top, lxs)
                long  == Turn(Bracketed(Top), BracketedRest(sigil) \o lxs)
            IN  /\ Outcome(short) = Outcome(long)
                /\ short.pc = "loop" =>
                     /\ Len(short.edges) = Len(Top.edges) + 1
                     /\ Last(short.edges).virtuals = Split(sigil.subvalues.virtuals, ",")
                     /\ Last(short.edges).direct = IsDirect(sigil)
                     /\ Last(short.edges).depflag = 0
                     /\ Last(short.edges).parent =
                            IF IsDirect(sigil) THEN Top.current_spec ELSE Top.root_spec

\* ^c,cxx=gcc and ^[virtuals=c,cxx] gcc in one text of five tokens: two edges that
\* differ in their child only
C4_Witness ==
    /\ Outer.pc = "return"
    /\ Outer.ctx.token_stream.idx = 5
    /\ Len(Outer.edges) = 2
    /\ \A i \in {1, 2} : /\ Outer.edges[i].virtuals = <<"c", "cxx">>
                         /\ Outer.nodes[Outer.edges[i].child].name = "gcc"
    /\ Outer.edges[1] = [Outer.edges[2] EXCEPT !.child = Outer.edges[1].child]

----------------------------------------------------------------------------
\* the compiler attachments %name of an activation after which a variant or flag
\* token was accepted
AttributedCompilers(f) ==
    {i \in 1..Len(f.edges) :
        /\ f.edges[i].direct
        /\ f.nodes[f.edges[i].child].name # ""
        /\ ~f.nodes[f.edges[i].child].concrete
        /\ f.nodes[f.edges[i].child].variants # <<>>}

\* C5: once a variant or flag token was accepted after a compiler attachment
\* %name, a warning is queued, and when the parse returns it has been handed to
\* the caller (foo %clang +bar returns with a warning).
C5_WarnsAfterCompiler ==
    \A i \in 1..Len(frames) :
        AttributedCompilers(frames[i]) # {} =>
            /\ frames[i].parser_warnings # <<>>
            /\ frames[i].pc = "return" => frames[i].warned # <<>>

----------------------------------------------------------------------------
\* the child an activation is about to attach was parsed from no token at all
AttachesEmptyChild(f) == f.pc = "attach" /\ f.nodes[f.node] = EmptySpec

\* C6: a sigil followed by nothing that parses as a node never gets an empty child
\* attached, and the parse raises nothing but the errors of spack.error.
C6_SigilNeedsNode ==
    \A i \in 1..Len(frames) :
        /\ ~AttachesEmptyChild(frames[i])
        /\ frames[i].error.type \in SpecErrors \cup {""}

----------------------------------------------------------------------------
\* C7: a concrete spec never becomes the parent of an edge to a child a sigil
\* introduced, and never takes the constraint of a toolchain.
C7_ConcreteTakesNoSigil ==
    \A i \in 1..Len(frames) :
        /\ \A e \in 1..Len(frames[i].edges) :
              frames[i].nodes[frames[i].edges[e].child] # EmptySpec
                  => ~frames[i].nodes[frames[i].edges[e].parent].concrete
        /\ \A n \in 1..Len(frames[i].nodes) :
              frames[i].nodes[n].concrete => frames[i].nodes[n].constraints = <<>>

----------------------------------------------------------------------------
\* _apply_toolchain is running in the activation
InToolchain(f) == f.pc \in {"toolchain", "parse_toolchain", "toolchain_wait"}

\* the names under which an activation has stored parsed toolchains
StoredNames(f) == [i \in 1..Len(f.parsed_toolchains) |-> f.parsed_toolchains[i].name]

\* the nodes of g are those of f, but that node n may have taken one more constraint
SameNodesBut(f, g, n) ==
    /\ Len(g.nodes) = Len(f.nodes)
    /\ \A k \in 1..Len(f.nodes) :
          \/ g.nodes[k] = f.nodes[k]
          \/ /\ k = n
             /\ Len(g.nodes[k].constraints) = Len(f.nodes[k].constraints) + 1
             /\ g.nodes[k] = [f.nodes[k] EXCEPT !.constraints =
                                 Append(@, Last(g.nodes[k].constraints))]

\* C8: the loop of next_spec turns to toolchain expansion exactly when it accepts a
\* bare % whose following token has the value of a configured toolchain name; the
\* expansion consumes exactly that name token, adds no node and no edge, leaves the
\* root and the current spec as they are and changes nothing but the constraints
\* of the current spec; every other sigil goes on to parse a regular child.
C8_ToolchainStep ==
    /\ (TopAfter.pc = "toolchain") => (Top.pc = "loop" /\ SameDepth)
    /\ (Top.pc = "loop" /\ SameDepth)
          => /\ TopAfter.pc = "toolchain"
                   <=> /\ Top.ctx.next_token.kind = "DEPENDENCY"
                       /\ Top.ctx.next_token.value = "%"
                       /\ TopAfter.ctx.next_token.value \in DOMAIN Toolchains
             /\ ((AtSigil("^") \/ AtSigil("%")) /\ TopAfter.pc # "toolchain")
                   => TopAfter.pc \in {"node", "edge_attrs", "error"}
    /\ (Top.pc = "toolchain")
          => /\ TopAfter.ctx.current_token = Top.ctx.next_token
             /\ TopAfter.ctx.current_token.value \in DOMAIN Toolchains
             /\ \E lx \in Choices : TopAfter.ctx = Advance(Top.ctx, lx)
    /\ \A i \in 1..Len(frames) :
          (InToolchain(frames[i]) /\ i <= Len(frames'))
              => /\ frames'[i].edges = frames[i].edges
                 /\ frames'[i].root_spec = frames[i].root_spec
                 /\ frames'[i].current_spec = frames[i].current_spec
                 /\ SameNodesBut(frames[i], frames'[i], frames[i].current_spec)
                 /\ (frames[i].pc # "toolchain") => (frames'[i].ctx = frames[i].ctx)

C8_ToolchainOnlyAfterBarePercent == [][C8_ToolchainStep]_vars

\* %tc %c=tc ^tc: the root takes the toolchain tc once and gets two regular
\* children called tc
C8_Witness ==
    /\ Outer.pc = "return"
    /\ Outer.root_spec # 0
    /\ Len(Outer.nodes[Outer.root_spec].constraints) = 1
    /\ Len(Outer.edges) = 2
    /\ Outer.edges[1].direct /\ Outer.edges[1].virtuals = <<"c">>
    /\ ~Outer.edges[2].direct
    /\ \A i \in {1, 2} : Outer.nodes[Outer.edges[i].child].name = "tc"

----------------------------------------------------------------------------
\* the configured toolchains with a ^ in one of their entries
CaretToolchains ==
    {name \in DOMAIN Toolchains :
        LET config == Toolchains[name]
            texts  == IF config.is_str THEN {config.str}
                      ELSE {config.entries[i].spec : i \in 1..Len(config.entries)}
        IN  \E t \in texts : \E k \in 1..Len(Tokenized[t]) :
                SubSeq(Tokenized[t][k].value, 1, 1) = "^"}

\* C9: an activation that referenced a toolchain with a ^ in its definition is still
\* parsing it or has raised SpecParsingError; no such name is ever stored in
\* parsed_toolchains, and the nodes hold no constraint but stored toolchains, so
\* no part of the definition constrains the referencing node.
C9_CaretToolchainRejected ==
    \A i \in 1..Len(frames) :
        LET f == frames[i]
        IN  /\ \A k \in 1..Len(f.parsed_toolchains) :
                  /\ f.parsed_toolchains[k].name \notin CaretToolchains
                  /\ AllDirect(f.parsed_toolchains[k].toolchain)
            /\ (\E k \in 1..Len(f.parses) : f.parses[k] \in CaretToolchains)
                  => \/ (f.pc \in {"parse_toolchain", "toolchain_wait"}
                            /\ f.tc.name \in CaretToolchains)
                     \/ (f.pc = "error" /\ f.error.type = "SpecParsingError")
            /\ \A n \in 1..Len(f.nodes) : \A c \in 1..Len(f.nodes[n].constraints) :
                  \E k \in 1..Len(f.parsed_toolchains) :
                      f.nodes[n].constraints[c] = f.parsed_toolchains[k].toolchain

\* %tc %tcbad: the reference to tcbad raises at its name token; the root keeps the
\* constraint of tc only and tcbad is not stored
C9_Witness ==
    /\ Outer.pc = "error"
    /\ Outer.error.type = "SpecParsingError"
    /\ Outer.error.token.value = "tcbad"
    /\ Outer.parses = <<"tc", "tcbad">>
    /\ StoredNames(Outer) = <<"tc">>
    /\ Outer.root_spec # 0
    /\ Len(Outer.nodes[Outer.root_spec].constraints) = 1

----------------------------------------------------------------------------
\* C10: in every activation each toolchain name was handed to _parse_toolchain at
\* most once; the stored names are the names parsed, but for the one being parsed
\* or whose parse failed; every constraint a node took is the stored result of a
\* name, and an activation starts with nothing stored, whatever its caller holds.
C10_ParsedOncePerParser ==
    \A i \in 1..Len(frames) :
        LET f == frames[i]
        IN  /\ \A j, k \in 1..Len(f.parses) : f.parses[j] = f.parses[k] => j = k
            /\ IF InToolchain(f) /\ f.pc # "toolchain"
               THEN StoredNames(f) = Front(f.parses) /\ Last(f.parses) = f.tc.name
               ELSE IF Raised(f) /\ f.tc.name # ""
               THEN \/ StoredNames(f) = f.parses
                    \/ (StoredNames(f) = Front(f.parses) /\ Last(f.parses) = f.tc.name)
               ELSE StoredNames(f) = f.parses
            /\ \A n \in 1..Len(f.nodes) : \A c \in 1..Len(f.nodes[n].constraints) :
                  \E name \in DOMAIN Toolchains :
                      /\ IsParsed(f, name)
                      /\ f.nodes[n].constraints[c] = ParsedToolchain(f, name)
            /\ (f.pc = "init") => (f.parsed_toolchains = <<>> /\ f.parses = <<>>)

\* %tc ^gcc %tc: tc is parsed once and its result constrains the root and gcc
C10_Witness ==
    /\ Outer.pc = "return"
    /\ Outer.parses = <<"tc">>
    /\ Len(Outer.nodes) = 2
    /\ \A n \in {1, 2} : Outer.nodes[n].constraints = <<ParsedToolchain(Outer, "tc")>>

----------------------------------------------------------------------------
\* the tokens tried inside an edge-attribute block: every token of the
\* vocabularies, keys with a trailing colon, and the end of the text
BlockTokens ==
    UNION {Vocabulary[v] : v \in Scenarios}
        \cup { Lex("KEY_VALUE_PAIR", "virtuals:=c"),
               Lex("KEY_VALUE_PAIR", "bogus:=1"),
               Lex("KEY_VALUE_PAIR", "deptype=build"),
               Lex("UNQUALIFIED_PACKAGE_NAME", "when"),
               NoLex }

\* the activation f with lx as the token it looks at
Facing(f, lx) ==
    [f EXCEPT !.ctx.next_token =
        IF lx = NoLex THEN NoToken
        ELSE Token(lx.kind, lx.value, f.ctx.next_token.start,
                   f.ctx.next_token.start + Len(lx.value), lx.subvalues)]

\* the key of a key-value token, without its trailing colon
EdgeKey(value) == RStrip(SplitOnce(value, "=")[1], {":"})

----------------------------------------------------------------------------
\* the messages of the errors raised while a parsed clause is applied
ClauseErrors ==
    {"cannot set the flag",
     "the only edge attributes that are currently accepted",
     "cannot use '^' in toolchain definitions",
     "cannot constrain a concrete spec"}

\* C12: an error of the spack.error.SpecError family that leaves next_spec is a
\* SpecParsingError, and the errors raised while a parsed clause is applied are
\* anchored at the current token of the cursor.
C12_DomainErrorsAreParsingErrors ==
    (Outer.pc = "error" /\ Outer.error.type \in SpecErrors)
        => /\ Outer.error.type = "SpecParsingError"
           /\ Outer.error.message \in ClauseErrors
                 => Outer.error.token = Outer.ctx.current_token

----------------------------------------------------------------------------
\* C13: when next_spec has returned, parse_one_or_raise returns the spec only if
\* no token is left: the cursor holds none, has none pushed back and the stream is
\* at its end. If a token is left, it raises "expected a single spec, but got
\* more" with an underline that starts at the start of that token, the first one
\* not consumed, and is as long as the token; if the text had no token and no
\* initial spec was given, it raises "expected a single spec, but got none".
C13_ParseOneNeedsWholeText ==
    \A i \in 1..Len(frames) :
        frames[i].pc = "return" =>
            LET f    == frames[i]
                next == f.ctx.next_token
                o    == ParseOneOutcome(f)
            IN  /\ f.ctx.pushed_tokens = <<>>
                /\ IF next # NoToken
                   THEN /\ ~o.ok
                        /\ o.error.type = "ValueError"
                        /\ o.error.message = "expected a single spec, but got more"
                        /\ o.error.token = next
                        /\ ParseOneUnderline(f).start = next.start
                        /\ ParseOneUnderline(f).length = next.end - next.start
                        /\ next.end + 1 = f.ctx.token_stream.pos
                   ELSE /\ f.ctx.token_stream.done
                        /\ IF f.ctx.token_stream.idx = 0 /\ f.nodes = <<>>
                           THEN /\ ~o.ok
                                /\ o.error.message = "expected a single spec, but got none"
                           ELSE /\ o.ok
                                /\ f.result # 0
                                /\ f.result \in {f.root_spec, f.initial_spec}

\* foo ^[when='gcc clang']: the condition has two specs; the error points at clang,
\* four characters into the text of the condition
C13_Witness ==
    /\ Outer.pc = "error"
    /\ Outer.error.type = "ValueError"
    /\ Outer.error.message = "expected a single spec, but got more"
    /\ Outer.error.token.value = "clang"
    /\ Outer.error.token.start = 4
    /\ Outer.nodes[1].name = "foo"

----------------------------------------------------------------------------
(* TokenContext on its own: any calls in any order                         *)

\* Most tokens the underlying stream yields to the cursor.
MaxStream == 3

\* Most tokens pushed in front of the stream at one time.
MaxPushed == 2

\* what the underlying stream yields
CursorVocabulary ==
    { Lex("UNQUALIFIED_PACKAGE_NAME", "foo"),
      Lex("DEPENDENCY", "^"),
      Lex("VERSION", "@1.0") }

\* the tokens a caller pushes
PushedTokens ==
    { Token("UNQUALIFIED_PACKAGE_NAME", "gcc", 7, 10, NoSub),
      Token("FULLY_QUALIFIED_PACKAGE_NAME", "builtin.gcc", 3, 14, NoSub) }

\* the kinds a caller asks for
AskedKinds == {"UNQUALIFIED_PACKAGE_NAME", "FULLY_QUALIFIED_PACKAGE_NAME", "DEPENDENCY"}

\* what next(self.token_stream, None) may return
CursorChoices(ctx) ==
    IF ctx.token_stream.done \/ ctx.token_stream.idx >= MaxStream THEN {NoLex}
    ELSE CursorVocabulary \cup {NoLex}

\* the cursor after the call op(arg), and what the call returned
Called(ctx, op, arg, result) == [ctx |-> ctx, op |-> op, arg |-> arg, result |-> result]

\* TokenContext(token_stream): __init__ with its advance()
InitCursor ==
    /\ \E lx \in CursorChoices(NewContext(InputText)) :
          cursor = Called(Advance(NewContext(InputText), lx), "init", "", FALSE)
    /\ tok = NoCall
    /\ fmt = NoCall
    /\ fix = NoCall
    /\ quo = NoCall
    /\ frames = <<>>
    /\ scenario = "node"

CursorAdvance ==
    /\ \E lx \in CursorChoices(cursor.ctx) :
          cursor' = Called(Advance(cursor.ctx, lx), "advance", "", FALSE)
    /\ UNCHANGED <<frames, scenario, tok, fmt, fix, quo>>

CursorAccept ==
    /\ \E kind \in AskedKinds, lx \in CursorChoices(cursor.ctx) :
          LET r == Accept(cursor.ctx, kind, lx)
          IN  cursor' = Called(r.ctx, "accept", kind, r.ok)
    /\ UNCHANGED <<frames, scenario, tok, fmt, fix, quo>>

CursorPushFront ==
    /\ Len(cursor.ctx.pushed_tokens) < MaxPushed
    /\ \E token \in PushedTokens :
          cursor' = Called(PushFront(cursor.ctx, token), "push_front", token, FALSE)
    /\ UNCHANGED <<frames, scenario, tok, fmt, fix, quo>>

CursorExpect ==
    /\ \E kinds \in SUBSET AskedKinds :
          LET r == ExpectCall(cursor.ctx, kinds)
          IN  cursor' = Called(r.ctx, "expect", kinds, r.result)
    /\ UNCHANGED <<frames, scenario, tok, fmt, fix, quo>>

CursorNext == CursorAdvance \/ CursorAccept \/ CursorPushFront \/ CursorExpect

SpecCursor == InitCursor /\ [][CursorNext]_vars

----------------------------------------------------------------------------
(* tokenize(text) over texts of characters                                 *)

\* Longest text given to tokenize, in characters.
MaxText == 4

\* the characters of the texts: a letter, a blank, a sigil, and a character no
\* token begins with
Alphabet == {"a", " ", "^", "&"}

RECURSIVE TextsOfLength(_)
TextsOfLength(n) ==
    IF n = 0 THEN {""} ELSE {t \o c : t \in TextsOfLength(n - 1), c \in Alphabet}

Texts == UNION {TextsOfLength(n) : n \in 0..MaxText}

\* text[p], counting from 1
CharAt(text, p) == SubSeq(text, p, p)

RECURSIVE RunEnd(_, _, _)
\* the last position of the run of characters of chars that starts at p, p - 1 if
\* there is none: a greedy [chars]* of the regular expressions
RunEnd(text, p, chars) ==
    IF p <= Len(text) /\ CharAt(text, p) \in chars THEN RunEnd(text, p + 1, chars)
    ELSE p - 1

\* the token SPEC_TOKENIZER matches at position p: the first pattern of SpecTokens,
\* in the order of declaration, that matches there
MatchAt(text, p) ==
    LET c    == CharAt(text, p)
        last == CASE c = "^" -> p                              \* DEPENDENCY
                  [] c = "a" -> RunEnd(text, p + 1, {"a"})     \* IDENTIFIER
                  [] c = " " -> RunEnd(text, p + 1, {" "})     \* WS
                  [] OTHER   -> RunEnd(text, p + 1, {" "})     \* UNEXPECTED: .[\s]*
        kind == CASE c = "^" -> "DEPENDENCY"
                  [] c = "a" -> "UNQUALIFIED_PACKAGE_NAME"
                  [] c = " " -> "WS"
                  [] OTHER   -> "UNEXPECTED"
    IN  Token(kind, SubSeq(text, p, last), p - 1, last, NoSub)

RECURSIVE RawTokensFrom(_, _)
RawTokensFrom(text, p) ==
    IF p > Len(text) THEN <<>>
    ELSE LET token == MatchAt(text, p)
         IN  <<token>> \o RawTokensFrom(text, token.end + 1)

\* list(SPEC_TOKENIZER.tokenize(text))
RawTokenize(text) == RawTokensFrom(text, 1)

\* whether there is an UNEXPECTED token among tokens
HasUnexpected(tokens) == \E k \in 1..Len(tokens) : tokens[k].kind = "UNEXPECTED"

RECURSIVE Repeat(_, _)
\* c * n
Repeat(c, n) == IF n <= 0 THEN "" ELSE c \o Repeat(c, n - 1)

RECURSIVE ErrorUnderline(_)
\* SpecTokenizationError.__init__: carets under the unexpected tokens
ErrorUnderline(tokens) ==
    IF tokens = <<>> THEN ""
    ELSE Repeat(IF Head(tokens).kind = "UNEXPECTED" THEN "^" ELSE " ",
                Head(tokens).end - Head(tokens).start)
         \o ErrorUnderline(Tail(tokens))

\* tokenize(text) before its first next()
StartTokenize(text) ==
    [status |-> "running", text |-> text, i |-> 0, yielded |-> <<>>, underline |-> ""]

\* a tokenize that yields whatever the tokenizer gives it
TokenizeStepUnchecked(t) ==
    LET raw == RawTokenize(t.text)
    IN  IF t.i >= Len(raw)
        THEN [t EXCEPT !.status = "done"]
        ELSE [t EXCEPT !.i = @ + 1, !.yielded = Append(@, raw[t.i + 1])]

\* one next() on the generator tokenize(text)
TokenizeStep(t) ==
    LET raw == RawTokenize(t.text)
    IN  IF t.i >= Len(raw)
        THEN [t EXCEPT !.status = "done"]
        ELSE IF raw[t.i + 1].kind = "UNEXPECTED"
        THEN [t EXCEPT !.status = "raised", !.underline = ErrorUnderline(raw)]
        ELSE [t EXCEPT !.i = @ + 1, !.yielded = Append(@, raw[t.i + 1])]

InitTokenize ==
    /\ \E text \in Texts : tok = StartTokenize(text)
    /\ frames = <<>>
    /\ scenario = "node"
    /\ fmt = NoCall
    /\ fix = NoCall
    /\ cursor = NoCall
    /\ quo = NoCall

TokenizeNext ==
    /\ tok.status = "running"
    /\ tok' = TokenizeStep(tok)
    /\ UNCHANGED <<frames, scenario, fmt, fix, cursor, quo>>

SpecTokenize == InitTokenize /\ [][TokenizeNext]_vars

----------------------------------------------------------------------------
(* cmd/style.py: _spec_str_format, the rewriter of legacy spec strings     *)

\* Most words (a token with the blank before it) in a string given to
\* _spec_str_format.
MaxWords == 5

\* a token of the legacy tokenizer, as _spec_str_format reads it
LegacyToken(kind, value) == [kind |-> kind, value |-> value]

\* Token(_LegacySpecTokens.WS, " ")
Blank == LegacyToken("WS", " ")

\* a package name right after a closing bracket
NameWord == <<LegacyToken("UNQUALIFIED_PACKAGE_NAME", "foo")>>

\* the words of the strings: one token of a kind of _LegacySpecTokens, after a
\* blank or, for the compiler with a version, right after the token before it
LegacyWords ==
    { <<Blank, LegacyToken("UNQUALIFIED_PACKAGE_NAME", "foo")>>,
      <<Blank, LegacyToken("DEPENDENCY", "^")>>,
      <<Blank, LegacyToken("START_EDGE_PROPERTIES", "^[")>>,
      <<Blank, LegacyToken("END_EDGE_PROPERTIES", "]")>>,
      <<Blank, LegacyToken("BOOL_VARIANT", "+x")>>,
      <<Blank, LegacyToken("COMPILER", "%gcc")>>,
      <<LegacyToken("COMPILER_AND_VERSION", "%gcc@1")>>,
      <<Blank, LegacyToken("FILENAME", "./c.json")>>,
      <<Blank, LegacyToken("UNEXPECTED", "&")>> }

\* the kinds _spec_str_format handles, branch by branch
CompilerKinds == {"COMPILER", "COMPILER_AND_VERSION"}

NodeStartKinds ==
    {"START_EDGE_PROPERTIES", "DEPENDENCY", "UNQUALIFIED_PACKAGE_NAME",
     "FULLY_QUALIFIED_PACKAGE_NAME"}

ClauseKinds ==
    {"VERSION_HASH_PAIR", "GIT_VERSION", "VERSION", "PROPAGATED_BOOL_VARIANT",
     "BOOL_VARIANT", "PROPAGATED_KEY_VALUE_PAIR", "KEY_VALUE_PAIR", "DAG_HASH"}

\* all(token.kind == WS for token in block)
AllWS(block) == \A k \in 1..Len(block) : block[k].kind = "WS"

RECURSIVE Flatten(_)
\* [token for block in blocks for token in block]
Flatten(blocks) == IF blocks = <<>> THEN <<>> ELSE Head(blocks) \o Flatten(Tail(blocks))

RECURSIVE JoinValues(_)
\* "".join(token.value for token in tokens)
JoinValues(tokens) == IF tokens = <<>> THEN "" ELSE Head(tokens).value \o JoinValues(Tail(tokens))

RECURSIVE DropLeadingWS(_)
\* while block[0].kind == WS: block.pop(0)
DropLeadingWS(block) ==
    IF block # <<>> /\ block[1].kind = "WS" THEN DropLeadingWS(Tail(block)) ELSE block

\* blocks without the one at idx (counted from 0)
Pop(blocks, idx) == SubSeq(blocks, 1, idx) \o SubSeq(blocks, idx + 2, Len(blocks))

\* whether _spec_str_reorder_compiler moves the block at idx
Moves(idx, blocks) ==
    /\ 0 <= idx
    /\ idx < Len(blocks) - 1
    /\ ~AllWS(Flatten(SubSeq(blocks, idx + 2, Len(blocks))))

\* blocks[0][0] of an empty block: the while loop ran past the end of a first
\* block of whitespace
ReorderIndexError(idx, blocks) ==
    Moves(idx, blocks) /\ idx = 0 /\ AllWS(Pop(blocks, idx)[1])

\* _spec_str_reorder_compiler(idx, blocks): blocks after the call
ReorderCompiler(idx, blocks) ==
    IF ~Moves(idx, blocks) THEN blocks
    ELSE LET popped         == blocks[idx + 1]
             compiler_block == IF popped[1].kind # "WS" THEN <<Blank>> \o popped
                               ELSE popped
             rest           == Pop(blocks, idx)
             stripped       == IF idx = 0
                               THEN <<DropLeadingWS(rest[1])>> \o Tail(rest)
                               ELSE rest
         IN  Append(stripped, compiler_block)

\* _spec_str_format before its loop; spec_str is read token by token
StartFormat ==
    [status |-> "running", tokens |-> <<>>, words |-> 0, current_block |-> <<>>,
     blocks |-> <<>>, compiler_block_idx |-> -1, in_edge_attr |-> FALSE,
     out |-> <<>>, result |-> "", error |-> ""]

\* return None
ReturnNone(s) == [s EXCEPT !.status = "none"]

\* blocks.append(current_block + [token]); current_block = []
CloseBlock(s, token) ==
    [s EXCEPT !.blocks = Append(@, Append(s.current_block, token)),
              !.current_block = <<>>]

\* one turn of the loop of _spec_str_format, on token
FormatToken(s, token) ==
    LET read == [s EXCEPT !.tokens = Append(@, token)]
    IN  IF s.status # "running" THEN s
        ELSE IF token.kind = "UNEXPECTED" THEN ReturnNone(read)
        ELSE IF token.kind \in CompilerKinds
        THEN IF s.compiler_block_idx # -1 THEN ReturnNone(read)
             ELSE [CloseBlock(read, token) EXCEPT !.compiler_block_idx = Len(s.blocks)]
        ELSE IF token.kind \in NodeStartKinds
        THEN IF ReorderIndexError(s.compiler_block_idx, s.blocks)
             THEN [read EXCEPT !.status = "raised", !.error = "IndexError"]
             ELSE CloseBlock(
                    [read EXCEPT !.blocks = ReorderCompiler(s.compiler_block_idx, @),
                                 !.compiler_block_idx = -1,
                                 !.in_edge_attr =
                                     (token.kind = "START_EDGE_PROPERTIES") \/ @],
                    token)
        ELSE IF token.kind = "END_EDGE_PROPERTIES"
        THEN CloseBlock([read EXCEPT !.in_edge_attr = FALSE], token)
        ELSE IF s.in_edge_attr
        THEN [read EXCEPT !.current_block = Append(@, token)]
        ELSE IF token.kind \in ClauseKinds THEN CloseBlock(read, token)
        ELSE IF token.kind = "WS"
        THEN [read EXCEPT !.current_block = Append(@, token)]
        ELSE [read EXCEPT !.status = "raised", !.error = "ValueError"]

RECURSIVE FormatTokens(_, _)
\* the loop over the tokens of a word
FormatTokens(s, tokens) ==
    IF tokens = <<>> THEN s
    ELSE FormatTokens(FormatToken(s, Head(tokens)), Tail(tokens))

\* _spec_str_format after its loop
FormatEnd(s) ==
    LET blocks       == IF s.current_block # <<>> THEN Append(s.blocks, s.current_block)
                        ELSE s.blocks
        out          == Flatten(ReorderCompiler(s.compiler_block_idx, blocks))
        new_spec_str == JoinValues(out)
    IN  IF s.status # "running" THEN s
        ELSE IF ReorderIndexError(s.compiler_block_idx, blocks)
        THEN [s EXCEPT !.status = "raised", !.error = "IndexError"]
        ELSE IF JoinValues(s.tokens) # new_spec_str
        THEN [s EXCEPT !.status = "changed", !.out = out, !.result = new_spec_str]
        ELSE ReturnNone(s)

\* the first word of a string may come without its blank
FirstWords == LegacyWords \cup {<<word[Len(word)]>> : word \in LegacyWords}

InitFormat ==
    /\ fmt = StartFormat
    /\ fix = NoCall
    /\ tok = NoCall
    /\ cursor = NoCall
    /\ quo = NoCall
    /\ frames = <<>>
    /\ scenario = "node"

\* the loop reads the next word of spec_str
FormatWord ==
    /\ fmt.status = "running"
    /\ fmt.words < MaxWords
    /\ \E word \in (IF fmt.words = 0 THEN FirstWords ELSE LegacyWords \cup {NameWord}) :
          /\ word = NameWord =>
                (IF fmt.tokens = <<>> THEN TRUE
                 ELSE Last(fmt.tokens).kind = "END_EDGE_PROPERTIES")
          /\ fmt' = [FormatTokens(fmt, word) EXCEPT !.words = @ + 1]
    /\ UNCHANGED <<frames, scenario, tok, fix, cursor, quo>>

\* spec_str ends, after a last blank or without one
FormatReturn ==
    /\ fmt.status = "running"
    /\ \E last \in {<<>>, <<Blank>>} : fmt' = FormatEnd(FormatTokens(fmt, last))
    /\ UNCHANGED <<frames, scenario, tok, fix, cursor, quo>>

FormatNext == FormatWord \/ FormatReturn

SpecFormat == InitFormat /\ [][FormatNext]_vars

----------------------------------------------------------------------------
(* cmd/style.py: _spec_str_fix_handler, the fix in place                   *)

\* Most lines in a file given to _spec_str_fix_handler.
MaxLines == 3

\* the lines of the files: what a line says and how it ends on disk
LineTexts == {"z", "x %a y", "x %a y %a y"}

LineEnds == {"LF", "CRLF"}

FileLines == [text : LineTexts, eol : LineEnds]

RECURSIVE FilesOfLength(_)
FilesOfLength(n) ==
    IF n = 0 THEN {<<>>}
    ELSE {Append(file, line) : file \in FilesOfLength(n - 1), line \in FileLines}

Files == UNION {FilesOfLength(n) : n \in 0..MaxLines}

\* the (old, new) pairs a caller hands over: new is _spec_str_format(old)
Fixes == {<<"%a y", "y %a">>, <<"%q y", "y %q">>}

\* open(path, "r").readlines(): every line ending is read as "\n"
ReadLines(file) == [k \in 1..Len(file) |-> [file[k] EXCEPT !.eol = "LF"]]

\* open(path, "w").writelines(lines): "\n" is written as it stands
WriteLines(lines) == lines

\* the place of lines[i] in lines, 0 for an IndexError: a negative i counts from
\* the end
ListIndex(lines, i) ==
    IF 0 <= i /\ i < Len(lines) THEN i + 1
    ELSE IF i < 0 /\ Len(lines) + i >= 0 THEN Len(lines) + i + 1
    ELSE 0

\* _spec_str_fix_handler(path, line, col, old, new) is called; disk is the file
\* at path
StartFix(file, line, old, new) ==
    [status |-> "called", disk |-> file, file |-> file, line |-> line,
     old |-> old, new |-> new]

\* _spec_str_fix_handler, the whole call
FixHandler(c) ==
    LET lines    == ReadLines(c.disk)
        at       == ListIndex(lines, c.line - 1)
        new_line == Replace(lines[at].text, c.old, c.new)
    IN  IF at = 0 THEN [c EXCEPT !.status = "raised"]
        ELSE IF new_line = lines[at].text THEN [c EXCEPT !.status = "warned"]
        ELSE [c EXCEPT !.status = "fixed",
                       !.disk = WriteLines([lines EXCEPT ![at].text = new_line])]

InitFix ==
    /\ \E file \in Files, line \in 0..(MaxLines + 1), f \in Fixes :
          fix = StartFix(file, line, f[1], f[2])
    /\ fmt = NoCall
    /\ tok = NoCall
    /\ cursor = NoCall
    /\ quo = NoCall
    /\ frames = <<>>
    /\ scenario = "node"

FixNext ==
    /\ fix.status = "called"
    /\ fix' = FixHandler(fix)
    /\ UNCHANGED <<frames, scenario, tok, fmt, cursor, quo>>

SpecFix == InitFix /\ [][FixNext]_vars

----------------------------------------------------------------------------
RECURSIVE Concat(_)
\* the values of the tokens, joined
Concat(tokens) == IF tokens = <<>> THEN "" ELSE Head(tokens).value \o Concat(Tail(tokens))

\* C14: the raw tokens of a text lie end to end and spell the text, so the raw
\* tokenizer has a token for every text; tokenize has always yielded a prefix of
\* the raw tokens, whitespace included; once it is consumed to the end it has
\* raised SpecTokenizationError if and only if a raw token is UNEXPECTED, and if
\* it has not raised it has yielded exactly the raw tokens.
C14_TokenizeRaisesIffUnexpected ==
    tok.status # "none" =>
        LET raw == RawTokenize(tok.text)
        IN  /\ Concat(raw) = tok.text
            /\ \A k \in 1..Len(raw) :
                  /\ raw[k].start = (IF k = 1 THEN 0 ELSE raw[k - 1].end)
                  /\ raw[k].end - raw[k].start = Len(raw[k].value)
                  /\ raw[k].end > raw[k].start
            /\ tok.yielded = SubSeq(raw, 1, Len(tok.yielded))
            /\ ~HasUnexpected(tok.yielded)
            /\ tok.status = "raised" => HasUnexpected(raw)
            /\ tok.status = "done" => (~HasUnexpected(raw) /\ tok.yielded = raw)

\* tokenize("a &") has yielded the name and the blank and raised at the &
C14_Witness ==
    /\ tok.status = "raised"
    /\ Len(tok.yielded) = 2
    /\ tok.yielded[2].kind = "WS"
    /\ tok.underline = "  ^"

----------------------------------------------------------------------------
\* C15: a next_spec call that starts with a token in the lookahead and returns has
\* consumed at least one token, so that the calls all_specs makes on one text come
\* to an end. A call that consumed nothing returns with the cursor as it found
\* it: a token still in the lookahead and no current token, or the current token
\* of the call before.
C15_NextSpecConsumes ==
    \A i \in 1..Len(frames) :
        (frames[i].pc = "return" /\ frames[i].ctx.next_token # NoToken) =>
            frames[i].ctx.current_token # NoToken

----------------------------------------------------------------------------
\* C16: a token the cursor holds lies where its characters are in the text. The
\* tokens of the stream do by construction; the token pushed in front of the
\* stream is spelled by the sigil token, the current token at that time, whose
\* characters are at text[start:end]: the pushed token's offsets must pick its
\* value out of them.
C16_PushedTokenLiesAtItsText ==
    \A i \in 1..Len(frames) :
        LET sigil  == frames[i].ctx.current_token
            pushed == frames[i].ctx.next_token
        IN  frames[i].ctx.pushed_tokens # <<>> =>
                /\ sigil.start <= pushed.start
                /\ pushed.end <= sigil.end
                /\ SubSeq(sigil.value, pushed.start - sigil.start + 1,
                          pushed.end - sigil.start) = pushed.value

----------------------------------------------------------------------------
(* What a call of _spec_str_format read and what it made of it.            *)

\* the tokens of kind in kinds, in order
RECURSIVE Only(_, _)
Only(tokens, kinds) ==
    IF tokens = <<>> THEN <<>>
    ELSE IF Head(tokens).kind \in kinds
    THEN <<Head(tokens)>> \o Only(Tail(tokens), kinds)
    ELSE Only(Tail(tokens), kinds)

\* the tokens that are not of a kind in kinds, in order
RECURSIVE Except(_, _)
Except(tokens, kinds) ==
    IF tokens = <<>> THEN <<>>
    ELSE IF Head(tokens).kind \in kinds
    THEN Except(Tail(tokens), kinds)
    ELSE <<Head(tokens)>> \o Except(Tail(tokens), kinds)

\* the last token of the node that tokens[k] is in: the one before the next sigil
\* or package name, or the last of the string
NodeEnd(tokens, k) ==
    LET starts == {j \in (k + 1)..Len(tokens) : tokens[j].kind \in NodeStartKinds}
    IN  IF starts = {} THEN Len(tokens)
        ELSE (CHOOSE j \in starts : \A h \in starts : j <= h) - 1

\* the compiler clause at k is followed by nothing but whitespace in its node
CompilerIsLast(tokens, k) == AllWS(SubSeq(tokens, k + 1, NodeEnd(tokens, k)))

\* every compiler clause is the last of its node
CompilersAreLast(tokens) ==
    \A k \in 1..Len(tokens) : tokens[k].kind \in CompilerKinds => CompilerIsLast(tokens, k)

\* no node has two compiler clauses
OneCompilerPerNode(tokens) ==
    \A k \in 1..Len(tokens) :
        tokens[k].kind \in CompilerKinds =>
            Only(SubSeq(tokens, k + 1, NodeEnd(tokens, k)), CompilerKinds) = <<>>

\* the call returned, a string or None
Returned == fmt.status \in {"none", "changed"}

\* the tokens of the string the call stands for: the new one, or the old one when
\* it returned None
Formatted == IF fmt.status = "changed" THEN fmt.out ELSE fmt.tokens

\* C17: when the string has no unexpected token and no node with two compiler
\* clauses, the string _spec_str_format produces has every compiler clause as the
\* last non-whitespace token of its node, and its other non-whitespace tokens are
\* those of the input in their order, as are its compiler clauses.
C17_CompilerMovesToEndOfNode ==
    (/\ fmt.status # "none" => Returned
     /\ Returned
     /\ Only(fmt.tokens, {"UNEXPECTED"}) = <<>>
     /\ OneCompilerPerNode(fmt.tokens)) =>
        /\ CompilersAreLast(Formatted)
        /\ Except(Formatted, {"WS"} \cup CompilerKinds)
             = Except(fmt.tokens, {"WS"} \cup CompilerKinds)
        /\ Only(Formatted, CompilerKinds) = Only(fmt.tokens, CompilerKinds)

----------------------------------------------------------------------------
\* the call is over: it returned or it raised
Ended == fmt.status \in {"none", "changed", "raised"}

\* C18: a call on a string with no compiler clause, or with every compiler
\* clause followed by nothing but whitespace in its node, ends returning None;
\* and a string the call returns differs from the string it was given.
C18_NoChangeReturnsNone ==
    /\ (Ended /\ CompilersAreLast(fmt.tokens)) => fmt.status = "none"
    /\ fmt.status = "changed" => fmt.result # JoinValues(fmt.tokens)

----------------------------------------------------------------------------
\* the string has a token no kind matches
HasUnexpectedToken(tokens) == Only(tokens, {"UNEXPECTED"}) # <<>>

\* the strings that begin with the tokens the call has read: that string itself
\* and, as long as the loop has not come to the end of the string, the one with
\* an unexpected character after it
Rests ==
    IF fmt.status \in {"running", "raised"}
    THEN {<<>>, <<Blank, LegacyToken("UNEXPECTED", "&")>>}
    ELSE {<<>>}

\* the call returned None from inside its loop, at the last token it read
Aborted ==
    /\ fmt.status = "none"
    /\ Len(Flatten(fmt.blocks)) + Len(fmt.current_block) < Len(fmt.tokens)

\* C19: on a string with an unexpected token or with a node of two compiler
\* clauses the call returns None, raising nothing and producing no string,
\* whatever it has reordered before; and it gives up inside its loop only on such
\* a string: compiler clauses of different nodes are not two of one node.
C19_AbortsWithNone ==
    /\ \A rest \in Rests :
          LET string == fmt.tokens \o rest
              s      == FormatTokens(fmt, rest)
          IN  (HasUnexpectedToken(string) \/ ~OneCompilerPerNode(string)) =>
                  (s.status = "none" /\ s.result = "" /\ s.out = <<>>)
    /\ Aborted => (HasUnexpectedToken(fmt.tokens) \/ ~OneCompilerPerNode(fmt.tokens))

----------------------------------------------------------------------------
\* C20: when the call is over, every line of the file but the one numbered line,
\* counting from 1, is as it was, and no line was added or removed; and if old
\* is not on that line the call warned and wrote nothing.
C20_FixRewritesOneLine ==
    fix.status \in {"fixed", "warned", "raised"} =>
        /\ Len(fix.disk) = Len(fix.file)
        /\ \A k \in 1..Len(fix.file) : k # fix.line => fix.disk[k] = fix.file[k]
        /\ (fix.line \in 1..Len(fix.file) /\ ~Contains(fix.file[fix.line].text, fix.old)) =>
              (fix.status = "warned" /\ fix.disk = fix.file)

----------------------------------------------------------------------------
(* What a call did to the cursor.                                          *)

\* the step is the call op
Calls(op) == cursor' # cursor /\ cursor'.op = op

\* the cursor is where it was
SameCursor ==
    /\ cursor'.ctx.current_token = cursor.ctx.current_token
    /\ cursor'.ctx.next_token = cursor.ctx.next_token
    /\ cursor'.ctx.pushed_tokens = cursor.ctx.pushed_tokens
    /\ cursor'.ctx.token_stream = cursor.ctx.token_stream

\* the step read the underlying stream once: the lookahead is the token at the
\* stream's position, or None at its end
ReadStream ==
    LET before == cursor.ctx.token_stream
        after  == cursor'.ctx.token_stream
    IN  \/ /\ cursor'.ctx.next_token # NoToken
           /\ cursor'.ctx.next_token.start = before.pos
           /\ after.idx = before.idx + 1
           /\ ~before.done
        \/ /\ cursor'.ctx.next_token = NoToken
           /\ after.done
           /\ after.idx = before.idx

\* the step is one advance(): the lookahead became current, and the new
\* lookahead is the token pushed last or, with none pushed, read from the stream
OneAdvance ==
    /\ cursor'.ctx.current_token = cursor.ctx.next_token
    /\ IF cursor.ctx.pushed_tokens # <<>>
       THEN /\ cursor'.ctx.next_token = Last(cursor.ctx.pushed_tokens)
            /\ cursor'.ctx.pushed_tokens = Front(cursor.ctx.pushed_tokens)
            /\ cursor'.ctx.token_stream = cursor.ctx.token_stream
       ELSE /\ cursor'.ctx.pushed_tokens = <<>>
            /\ ReadStream

\* C21: accept(kind) returns true exactly when there is a next token and it is of
\* that kind; then the call is one advance(), and otherwise it leaves the current
\* token, the next token, the pushed tokens and the stream as they were.
C21_AcceptStep ==
    Calls("accept") =>
        LET matches == /\ cursor.ctx.next_token # NoToken
                       /\ cursor.ctx.next_token.kind = cursor'.arg
        IN  /\ cursor'.result = matches
            /\ IF matches THEN OneAdvance ELSE SameCursor

C21_AcceptAdvancesOnMatch == [][C21_AcceptStep]_vars

\* accept took a pushed token, with another one still pushed
C21_Witness ==
    /\ cursor.op = "accept"
    /\ cursor.result
    /\ cursor.ctx.current_token \in PushedTokens
    /\ cursor.ctx.pushed_tokens # <<>>

\* C22: expect(*kinds) leaves the current token, the next token, the pushed
\* tokens and the stream as they were, whatever the cursor and the kinds.
C22_ExpectStep == Calls("expect") => SameCursor

C22_ExpectKeepsCursor == [][C22_ExpectStep]_vars

\* expect found a token of one of the kinds, with a token pushed
C22_Witness ==
    /\ cursor.op = "expect"
    /\ cursor.result
    /\ cursor.ctx.pushed_tokens # <<>>

----------------------------------------------------------------------------
RECURSIVE Reverse(_)
Reverse(seq) == IF seq = <<>> THEN <<>> ELSE Append(Reverse(Tail(seq)), Head(seq))

\* the tokens the cursor serves before it reads the stream again, in the order
\* it serves them
Ahead(ctx) == <<ctx.next_token>> \o Reverse(ctx.pushed_tokens)

\* push_front(t) and then advance(): t is current, the lookahead is the one from
\* before, and the stream was not read
PushThenAdvance ==
    \A t \in PushedTokens, lx \in CursorVocabulary \cup {NoLex} :
        LET c == Advance(PushFront(cursor.ctx, t), lx)
        IN  /\ c.current_token = t
            /\ c.next_token = cursor.ctx.next_token
            /\ c.pushed_tokens = cursor.ctx.pushed_tokens
            /\ c.token_stream = cursor.ctx.token_stream

\* an advance() serves the first of the tokens ahead and reads the stream, once,
\* only when none is left; a push_front(t) puts t before all of them
ServesInOrder ==
    /\ Calls("advance") =>
          /\ OneAdvance
          /\ Len(Ahead(cursor.ctx)) > 1 => Ahead(cursor'.ctx) = Tail(Ahead(cursor.ctx))
    /\ Calls("push_front") =>
          /\ Ahead(cursor'.ctx) = <<cursor'.arg>> \o Ahead(cursor.ctx)
          /\ cursor'.ctx.current_token = cursor.ctx.current_token
          /\ cursor'.ctx.token_stream = cursor.ctx.token_stream

\* at the end of the stream with nothing pushed the lookahead stays None
StaysExhausted ==
    (/\ cursor.ctx.token_stream.done
     /\ cursor.ctx.pushed_tokens = <<>>
     /\ cursor.ctx.next_token = NoToken
     /\ cursor'.op # "push_front") => cursor'.ctx.next_token = NoToken

\* C23: push_front(t) followed by advance() makes t the current token and leaves
\* the lookahead it found, without reading the stream; the cursor serves the
\* tokens of the stream in order, each pushed token at the place it was pushed;
\* and once the stream is at its end and nothing is pushed, the lookahead stays
\* None.
C23_PushedTokensAreSpliced ==
    /\ []PushThenAdvance
    /\ [][ServesInOrder /\ StaysExhausted]_vars

\* two tokens were pushed and an advance served the one pushed last
C23_Witness ==
    /\ cursor.op = "advance"
    /\ cursor.ctx.current_token \in PushedTokens
    /\ cursor.ctx.next_token \in PushedTokens
    /\ cursor.ctx.next_token # cursor.ctx.current_token
    /\ cursor.ctx.pushed_tokens # <<>>

----------------------------------------------------------------------------
(* The pushes of a parse.                                                  *)

\* the token the cursor stands on carries a virtual assignment
CarriesAssignment(ctx) ==
    /\ ctx.current_token.kind \in {"DEPENDENCY", "END_EDGE_PROPERTIES"}
    /\ ctx.current_token.subvalues # NoSub

\* the step accepted a token in activation i
AcceptedIn(i) ==
    /\ frames'[i].ctx # frames[i].ctx
    /\ frames'[i].ctx.current_token # frames[i].ctx.current_token

\* the name a package-name token gives its node
NameOf(token) == Last(Split(token.value, "."))

C24_PushStep ==
    /\ \A i \in 1..Len(frames') :
          i > Len(frames) => frames'[i].ctx.pushed_tokens = <<>>
    /\ \A i \in (1..Len(frames)) \cap (1..Len(frames')) :
          LET a == frames[i].ctx
              b == frames'[i].ctx
              g == frames'[i]
          IN  IF AcceptedIn(i) /\ CarriesAssignment(b)
              THEN /\ a.pushed_tokens = <<>>
                   /\ Len(b.pushed_tokens) = 1
                   /\ b.next_token.kind \in {"UNQUALIFIED_PACKAGE_NAME",
                                             "FULLY_QUALIFIED_PACKAGE_NAME"}
                   /\ b.next_token.value = b.current_token.subvalues.substitute
              ELSE /\ Len(b.pushed_tokens) <= Len(a.pushed_tokens)
                   /\ (a.pushed_tokens # <<>> /\ b # a) =>
                         /\ b.pushed_tokens = <<>>
                         /\ b.current_token = a.next_token
                         /\ g.node # 0
                         /\ g.nodes[g.node].name = NameOf(a.next_token)

\* C24: in every state of a parse each cursor holds at most one pushed token; a
\* step pushes, once, exactly when it accepted a DEPENDENCY or
\* END_EDGE_PROPERTIES token that carries a virtual assignment; and the next
\* token the parser takes after a push is the pushed one, as the name of the
\* child.
C24_OnePushPerAssignment ==
    /\ [](\A i \in 1..Len(frames) : Len(frames[i].ctx.pushed_tokens) <= 1)
    /\ [][C24_PushStep]_vars

\* the closing bracket of an edge attribute list pushed its package name, after
\* an earlier pushed name became a child
C24_Witness ==
    /\ Top.ctx.current_token.kind = "END_EDGE_PROPERTIES"
    /\ Len(Top.ctx.pushed_tokens) = 1
    /\ Top.ctx.pushed_tokens[1] # NoToken
    /\ \E e \in 1..Len(Top.edges) :
          /\ Top.edges[e].virtuals # <<>>
          /\ Top.nodes[Top.edges[e].child].name = "gcc"

----------------------------------------------------------------------------
(* The node the tokens after a child go to.                                *)

\* the kinds of token the loop of SpecNodeParser.parse takes
AttributeKinds ==
    VersionKinds \cup {"BOOL_VARIANT", "PROPAGATED_BOOL_VARIANT", "KEY_VALUE_PAIR",
                       "PROPAGATED_KEY_VALUE_PAIR", "DAG_HASH"}

HasVariant(spec, name) == \E i \in 1..Len(spec.variants) : spec.variants[i].name = name

\* the key of a key-value token, without the colon of a concrete one
KeyOf(value, sep) ==
    LET key == SplitOnce(value, sep)[1]
    IN  IF EndsWith(key, ":") THEN SubSeq(key, 1, Len(key) - 1) ELSE key

\* the spec carries what the token says
Carries(spec, token) ==
    CASE token.kind \in VersionKinds -> spec.versions = From(token.value, 1)
      [] token.kind = "BOOL_VARIANT" ->
            HasVariant(spec, Strip(From(token.value, 1), {" "}))
      [] token.kind = "PROPAGATED_BOOL_VARIANT" ->
            HasVariant(spec, Strip(From(token.value, 2), {" "}))
      [] token.kind = "KEY_VALUE_PAIR" -> HasVariant(spec, KeyOf(token.value, "="))
      [] token.kind = "PROPAGATED_KEY_VALUE_PAIR" ->
            HasVariant(spec, KeyOf(token.value, "=="))
      [] token.kind = "DAG_HASH" -> spec.abstract_hash = From(token.value, 1)
      [] OTHER -> FALSE

C25_ChildStep ==
    /\ (Top.pc = "node_loop" /\ Top.after = "dep") =>
          LET f == Top
              g == TopAfter
              n == f.node
              token == f.ctx.next_token
          IN  /\ SameDepth
              /\ n \notin {f.root_spec, f.current_spec, TargetSpec(f)}
              /\ Len(g.nodes) = Len(f.nodes)
              /\ \A k \in 1..Len(f.nodes) : k # n => g.nodes[k] = f.nodes[k]
              /\ (token.kind \in AttributeKinds /\ g.ctx # f.ctx /\ ~Raised(g)) =>
                    /\ g.ctx.current_token = token
                    /\ Carries(g.nodes[n], token)
                    /\ g.pc = "node_loop"
                    /\ g.node = n
              /\ token.kind \notin AttributeKinds =>
                    /\ g.nodes = f.nodes
                    /\ g.ctx = f.ctx
                    /\ g.pc = "attach"
    /\ Attaches => AddedEdge.child = Top.node

----------------------------------------------------------------------------
(* The order of tokenization errors and parse errors.                      *)

\* the characters no token matches
Unexpected == Lex("UNEXPECTED", "&")

TokenizationRaised(f) == f.error.type = "SpecTokenizationError"

\* the handler where f stands, under tokenize
LazyStep(f, lx) == Lazily(f, Step(f, lx), lx)

\* no cursor ever holds an UNEXPECTED token
NeverSeesUnexpected ==
    \A i \in 1..Len(frames) :
        /\ frames[i].ctx.current_token.kind # "UNEXPECTED"
        /\ frames[i].ctx.next_token.kind # "UNEXPECTED"
        /\ \A j \in 1..Len(frames[i].ctx.pushed_tokens) :
              frames[i].ctx.pushed_tokens[j].kind # "UNEXPECTED"

\* were the next token of the text UNEXPECTED: a handler that takes the lookahead
\* raises SpecTokenizationError, whatever it would have done with a text that goes
\* on otherwise; a handler that does not take it does what it does for every text
UnexpectedNext ==
    (Top.pc \in {"loop", "node", "node_loop", "edge_attrs"} /\ ~Top.ctx.token_stream.done)
       => \A lx \in Choices \ {Unexpected} :
             LET ref == Step(Top, lx)
                 bad == LazyStep(Top, Unexpected)
             IN  IF ref.ctx.token_stream # Top.ctx.token_stream
                 THEN TokenizationRaised(bad)
                 ELSE bad = ref

C26_RaiseStep ==
    (TokenizationRaised(TopAfter) /\ ~Raised(Top)) =>
        /\ SameDepth
        /\ Top.ctx.pushed_tokens = <<>>
        /\ ~Top.ctx.token_stream.done
        /\ Top.pc = "init" \/ Top.ctx.next_token # NoToken
        /\ TopAfter.ctx.current_token = Top.ctx.next_token
        /\ TopAfter.ctx.token_stream.idx = Top.ctx.token_stream.idx
        /\ TopAfter.ctx.token_stream.done
        /\ TopAfter.nodes = Top.nodes
        /\ TopAfter.edges = Top.edges

----------------------------------------------------------------------------
(* The depth of toolchain expansion.                                       *)

\* the toolchain names whose definitions are being parsed, outermost first
Expanding ==
    [i \in 1..(Len(frames) - 1) |-> frames[i].tc.name]

\* C27: toolchain expansion terminates for every configuration: the definitions
\* being parsed at any one time are definitions of different toolchains, so that
\* the expansions nest no deeper than there are toolchains and every one of them
\* returns or raises, also when a definition refers to its own name.
C27_ExpansionNeverReenters ==
    \A i, j \in 1..(Len(frames) - 1) :
        (i < j /\ frames[i].pc = "toolchain_wait" /\ frames[j].pc = "toolchain_wait")
            => Expanding[i] # Expanding[j]

----------------------------------------------------------------------------
\* C28: _spec_str_format is total: on every string, whatever kinds of token it
\* is made of, filenames among them, the call ends returning a string or None
\* and never raises.
C28_FormatNeverRaises ==
    /\ fmt.status # "raised"
    /\ fmt.error = ""

----------------------------------------------------------------------------
(* Formatting the string the call returned.                                *)

RECURSIVE Retokenize(_)
\* the tokens of the string a sequence of tokens is joined to: blanks next to each
\* other are one WS token, and a name right after a compiler clause is part of
\* the compiler's name or version
Retokenize(tokens) ==
    IF Len(tokens) < 2 THEN tokens
    ELSE LET a == tokens[1]
             b == tokens[2]
             merged == <<LegacyToken(a.kind, a.value \o b.value)>> \o SubSeq(tokens, 3, Len(tokens))
         IN  IF \/ (a.kind = "WS" /\ b.kind = "WS")
                \/ (a.kind \in CompilerKinds /\ b.kind = "UNQUALIFIED_PACKAGE_NAME")
             THEN Retokenize(merged)
             ELSE <<a>> \o Retokenize(Tail(tokens))

\* _spec_str_format on a whole string
FormatString(tokens) == FormatEnd(FormatTokens(StartFormat, tokens))

\* C29: the rewrite is idempotent: when _spec_str_format(s) returns a string r,
\* _spec_str_format(r) returns None.
C29_FormatIsIdempotent ==
    fmt.status = "changed" => FormatString(Retokenize(fmt.out)).status = "none"

----------------------------------------------------------------------------
(* quote_if_needed and strip_quotes_and_unescape over values of characters *)

\* Longest value quoted, in characters.
MaxValue == 4

\* the characters of the values: a safe one, the two quotes, the backslash and
\* the newline
QuoteAlphabet == {"a", "'", DQ, BS, NL}

RECURSIVE ValuesOfLength(_)
ValuesOfLength(n) ==
    IF n = 0 THEN {""} ELSE {v \o c : v \in ValuesOfLength(n - 1), c \in QuoteAlphabet}

Values == UNION {ValuesOfLength(n) : n \in 0..MaxValue}

\* the characters of NO_QUOTES_NEEDED
SafeLetters == "abcdefghijklmnopqrstuvwxyzABCDEFGHIJKLMNOPQRSTUVWXYZ0123456789,/_.-[]"

SafeCharacters == {SubSeq(SafeLetters, i, i) : i \in 1..Len(SafeLetters)}

\* the value is one or more safe characters
OnlySafe(value) ==
    /\ Len(value) >= 1
    /\ \A i \in 1..Len(value) : SubSeq(value, i, i) \in SafeCharacters

\* NO_QUOTES_NEEDED.match(value)
NoQuotesNeeded(value) == OnlySafe(BeforeDollar(value))

RECURSIVE JsonEscape(_)
\* the body of json.dumps(value): the backslash, the double quote and the control
\* codes are escaped
JsonEscape(value) ==
    IF value = "" THEN ""
    ELSE LET c == SubSeq(value, 1, 1)
         IN  (CASE c = BS -> BS \o BS
                [] c = DQ -> BS \o DQ
                [] c = NL -> BS \o "n"
                [] OTHER  -> c) \o JsonEscape(SubSeq(value, 2, Len(value)))

\* json.dumps(value)
JsonDumps(value) == DQ \o JsonEscape(value) \o DQ

\* quote_if_needed
QuoteIfNeeded(value) ==
    IF NoQuotesNeeded(value) THEN value
    ELSE IF Contains(value, "'") THEN JsonDumps(value)
    ELSE "'" \o value \o "'"

InitQuote ==
    /\ \E value \in Values :
          quo = [status |-> "start", value |-> value, quoted |-> "", result |-> ""]
    /\ frames = <<>>
    /\ scenario = "node"
    /\ tok = NoCall
    /\ fmt = NoCall
    /\ fix = NoCall
    /\ cursor = NoCall

\* quoted = quote_if_needed(value)
Quote ==
    /\ quo.status = "start"
    /\ quo' = [quo EXCEPT !.status = "quoted", !.quoted = QuoteIfNeeded(quo.value)]
    /\ UNCHANGED <<frames, scenario, tok, fmt, fix, cursor>>

\* result = strip_quotes_and_unescape(quoted)
Unquote ==
    /\ quo.status = "quoted"
    /\ quo' = [quo EXCEPT !.status = "stripped",
                          !.result = StripQuotesAndUnescape(quo.quoted)]
    /\ UNCHANGED <<frames, scenario, tok, fmt, fix, cursor>>

QuoteNext == Quote \/ Unquote

SpecQuote == InitQuote /\ [][QuoteNext]_vars

\* the string is s between two quote characters
Within(string, quote, s) == string = quote \o s \o quote

\* C30: quoting round-trips: strip_quotes_and_unescape(quote_if_needed(v)) = v
\* for every value v, with single quotes, double quotes or backslashes in it or
\* not; a value of safe characters only is emitted as it is, a value with a
\* single quote in it in double quotes, JSON-escaped, and every other value in
\* single quotes.
C30_QuotingRoundTrips ==
    /\ quo.status = "stripped" => quo.result = quo.value
    /\ quo.status \in {"quoted", "stripped"} =>
          IF OnlySafe(quo.value) THEN quo.quoted = quo.value
          ELSE IF Contains(quo.value, "'")
          THEN Within(quo.quoted, DQ, JsonEscape(quo.value))
          ELSE Within(quo.quoted, "'", quo.value)

====
